---- MODULE Spec2Model ----
(***************************************************************************)
(* Model of the audio-capture and wake-word pipeline of the Doraemon       *)
(* music bot (src/doraemon/audio.py, wake_word.py, listener.py).           *)
(*                                                                         *)
(* The module holds several specifications over one set of variables:      *)
(*   RecorderSpec  AudioRecorder driven by arbitrary start/stop/read/      *)
(*                 delete calls                                            *)
(*   ReadSpec      AudioRecorder._read_sox at byte level                   *)
(*   WaitSpec      one call of wait_for_wake_word, both engine modes       *)
(*   LiveWaitSpec  WaitSpec with weak fairness of the calling thread       *)
(*   SegSpec       the two segment recorders                               *)
(*   MatchSpec     _matches_wake_word on one transcript and one phrase     *)
(*   ProbeSpec     the backend resolution at import, then the dispatches   *)
(* A specification leaves the variables of the other parts at their idle   *)
(* values.                                                                 *)
(***************************************************************************)
EXTENDS Integers, Sequences, FiniteSets, TLC

VARIABLES
    \* ---- AudioRecorder harness (RecorderSpec) ----
    rec,        \* the AudioRecorder instance: its fields, plus two counters
    hlast,      \* the last call made on it and how it ended
    hcalls,     \* number of calls made so far
    \* ---- AudioRecorder._read_sox (ReadSpec) ----
    frame_length, \* self.frame_length
    stream,     \* every byte the capture process writes before it exits
    rpos,       \* bytes taken from the pipe so far
    data,       \* the local accumulator of _read_sox
    rpc,        \* "idle" | "loop" | "returned" | "failed"
    frame,      \* the frame the last completed read() returned
    nframes,    \* number of read() calls that returned a frame
    lastChunk,  \* length of the chunk the last pipe read returned (-1: none yet)
    nchunks,    \* pipe reads made by the current read() call
    misses,     \* number of read() calls that failed (capped)
    \* ---- segment recorders (SegSpec, and WaitSpec for the wake-word one) ----
    tools,      \* which external utilities shutil.which finds
    swho,       \* "none" | "wake" (_record_segment_termux) | "phrase" (_record_raw_termux)
    spc,        \* position inside the call
    sfile,      \* the recording as the recorder utility leaves it: [ready, size]
    spolls,     \* polls of the output file made so far
    sdata,      \* len(data): bytes read from the output file (0: b"")
    sfiles,     \* transient files on disk or still to be written by the
                \* recorder utility: subset of {"rec", "tmp"}
    slaunched,  \* external commands launched by the current call, in order
    sduration,  \* the duration argument of the current call (0: no call yet)
    stimeouts,  \* the timeout= argument of each launched command, in order
    sprimary,   \* "skipped" | "running" | "ok" | "failed": the primary strategy
    sout,       \* what the call returned: [kind, size]
    scalls,     \* calls made so far
    \* ---- wait_for_wake_word (WaitSpec) ----
    IS_TERMUX,      \* audio.IS_TERMUX
    porcupine_mod,  \* TRUE iff wake_word._porcupine_mod is not None
    stop_event,     \* "absent" (None) | "clear" | "set"
    wpc,            \* position of the call
    porcupine,      \* the engine handle: "none" | "live" | "deleted"
    pipe,           \* stdout of the running sox process: "flowing" | "stalled" | "closed"
    wpending,       \* how the try block ended: "none" | "True" | "False" | "raise"
    wret,           \* how the call ended: "none" | "True" | "False" | "raised"
    keyword_index,  \* last result of porcupine.process (-2: none for the frame read)
    heard,          \* last answer of recognize_google: [kind, text]
    lastOutcome,    \* outcome of the current loop iteration of the transcribe loop
    prevOutcome,    \* outcome of the iteration before
    readsAfterSet,  \* frame reads begun while the signal was set (capped at 2)
    classifiedAfterSet, \* frames classified while the signal was set (capped at 2)
    setDuringRead,  \* the signal became set while a read() was in progress
    \* ---- _matches_wake_word (MatchSpec) ----
    mtext,      \* the transcript passed as text
    mword,      \* the phrase passed as wake_word
    mpc,        \* "ready" | "done"
    mresult,    \* what _matches_wake_word returned
    mnorm,      \* normalise(text)
    mnorm2,     \* normalise(normalise(text))
    \* ---- backend resolution at import of wake_word (ProbeSpec) ----
    ppc,            \* position of the module-level code
    check_output,   \* what subprocess.check_output is bound to: "real" | "patched"
    loadcheck,      \* _verify_native_library: "not run" | "passed" | "failed"
    actual_part,    \* the CPU part read from /proc/cpuinfo ("": none read)
    pcalls,         \* wait_for_wake_word calls made so far
    pmodes,         \* the mode each of those calls dispatched to, in order
    nprobes,        \* what the probe has done so far: [imports, cpuinfo, patches, loads]
    selected,       \* the value first bound to _porcupine_mod ("unset" before)
    ncocalls,       \* subprocess.check_output calls made by other code so far
    lastcall,       \* the last of those calls: [cmd, raw, seen, patched]
    \* ---- listen_for_song_name (ListenSpec) ----
    lpc,            \* position inside the call
    lcalls,         \* calls made so far
    loutcome,       \* how the capture and the recognition of this call went
    lheard,         \* what recognize_google returned
    lret,           \* what the call returned: None, a string, or an exception
    \* ---- main (MainSpec) ----
    pc,                     \* position inside main()
    PICOVOICE_ACCESS_KEY,   \* config.PICOVOICE_ACCESS_KEY
    WAKE_WORD_MODEL_PATH,   \* config.WAKE_WORD_MODEL_PATH
    ppn_at_root,            \* the model file exists under config.PROJECT_ROOT
    ppn_at_cwd,             \* the model file exists under the working directory
    mpv,                    \* shutil.which("mpv") finds the player
    cycles,                 \* iterations of the outer loop begun so far
    events,                 \* the calls of the current iteration, in order
    phrase,                 \* the local variable phrase
    engine,                 \* what _create_porcupine last did
    ended                   \* how the process ended ("no": it is running)

recVars  == <<rec, hlast, hcalls>>
readVars == <<frame_length, stream, rpos, data, rpc, frame, nframes, lastChunk,
              nchunks, misses>>
segVars  == <<tools, swho, spc, sfile, spolls, sdata, sfiles, slaunched, sprimary,
              sout, scalls, sduration, stimeouts>>
waitVars == <<IS_TERMUX, porcupine_mod, stop_event, wpc, porcupine, pipe, wpending,
              wret, keyword_index, heard, lastOutcome, prevOutcome, readsAfterSet,
              classifiedAfterSet, setDuringRead>>
matchVars == <<mtext, mword, mpc, mresult, mnorm, mnorm2>>
listenVars == <<lpc, lcalls, loutcome, lheard, lret>>
mainVars == <<pc, PICOVOICE_ACCESS_KEY, WAKE_WORD_MODEL_PATH, ppn_at_root, ppn_at_cwd,
              mpv, cycles, events, phrase, engine, ended>>
loopVars == <<listenVars, mainVars>>
probeVars == <<ppc, check_output, loadcheck, actual_part, pcalls, pmodes, nprobes,
               selected, ncocalls, lastcall>>
vars     == <<recVars, readVars, segVars, waitVars, matchVars, probeVars, loopVars>>

(***************************************************************************)
(* Bounds of the model.                                                    *)
(***************************************************************************)
MaxCalls == 4
MaxFrameLen == 2
MaxStream == 5
MaxMisses == 1
MaxSegCalls == 2
MaxReady == 4
MaxDuration == 3
MaxPhraseLen == 3
MaxListenCalls == 2
MaxCycles == 2

(***************************************************************************)
(* AudioRecorder (src/doraemon/audio.py).                                  *)
(*   backend   "pvrecorder" | "sox"          self._backend                 *)
(*   started   BOOLEAN                        self._started                *)
(*   recorder  "None" | "PvRecorder"          self._recorder               *)
(*   process   "None" | "Popen"               self._process                *)
(*   opened    native handles constructed + capture processes spawned      *)
(*   closed    native handles deleted + capture processes reaped           *)
(* The outcome of every call into PvRecorder, Popen or shutil is an input  *)
(* of the operation (a field of o).                                        *)
(***************************************************************************)
Backends == {"pvrecorder", "sox"}

AudioRecorder(backend) ==
    [backend |-> backend, started |-> FALSE, recorder |-> "None",
     process |-> "None", opened |-> 0, closed |-> 0]

\* What the environment can answer to the calls start() makes.
StartOutcomes ==
    [ctor : {"ok", "raise"}, rstart : {"ok", "raise"},
     which : {"found", "missing"}, popen : {"ok", "raise"}]

\* What the environment can answer to the calls stop() and delete() make.
StopOutcomes ==
    [rstop : {"ok", "raise"}, rdelete : {"ok", "raise"},
     terminate : {"ok", "raise"}, wait : {"ok", "timeout"},
     poll : {"None", "exited"}, kill : {"ok", "raise"}]

\* What a read of the device or of the pipe can answer.
ReadOutcomes == {"frame", "raise"}

Ret(r, raised) == [rec |-> r, raised |-> raised]

_start_pvrecorder(r, o) ==
    IF o.ctor = "raise" THEN Ret(r, TRUE)
    ELSE LET r1 == [r EXCEPT !.recorder = "PvRecorder", !.opened = @ + 1]
         IN  Ret(r1, o.rstart = "raise")

_start_sox(r, o) ==
    IF o.which = "missing" THEN Ret(r, TRUE)
    ELSE IF o.popen = "raise" THEN Ret(r, TRUE)
    ELSE Ret([r EXCEPT !.process = "Popen", !.opened = @ + 1], FALSE)

\* Mutant of AlreadyStarted: the guard of start() is gone.
AlreadyStartedNoGuard(r) == FALSE

\* start(): "if self._started: return"
AlreadyStarted(r) == r.started

start(r, o) ==
    IF AlreadyStarted(r) THEN Ret(r, FALSE)
    ELSE LET s == IF r.backend = "pvrecorder" THEN _start_pvrecorder(r, o)
                  ELSE _start_sox(r, o)
         IN  IF s.raised THEN s
             ELSE Ret([s.rec EXCEPT !.started = TRUE], FALSE)

\* The native recorder's stop() is wrapped in try/except: nothing escapes.
_stop_pvrecorder(r, o) == Ret(r, FALSE)

\* terminate() and wait(timeout=3) are inside the try; poll() and kill() run
\* in the except handler, where nothing catches what kill() raises.
_stop_sox(r, o) ==
    IF r.process = "None" THEN Ret(r, FALSE)
    ELSE LET released == [r EXCEPT !.process = "None", !.closed = @ + 1]
         IN  IF o.terminate = "ok" /\ o.wait = "ok" THEN Ret(released, FALSE)
             ELSE IF o.poll # "None" THEN Ret(released, FALSE)
             ELSE IF o.kill = "ok" THEN Ret(released, FALSE)
             ELSE Ret(r, TRUE)

stop(r, o) ==
    IF ~r.started THEN Ret(r, FALSE)
    ELSE LET s == IF r.backend = "pvrecorder" THEN _stop_pvrecorder(r, o)
                  ELSE _stop_sox(r, o)
         IN  IF s.raised THEN s
             ELSE Ret([s.rec EXCEPT !.started = FALSE], FALSE)

delete(r, o) ==
    LET s == stop(r, o)
    IN  IF s.raised THEN s
        ELSE IF s.rec.recorder # "None"
             THEN Ret([s.rec EXCEPT !.recorder = "None", !.closed = @ + 1], FALSE)
             ELSE s

\* read(): the instance is not changed; a read before any start() finds
\* self._recorder / self._process None and raises AttributeError.
read(r, o) ==
    IF r.backend = "pvrecorder"
    THEN Ret(r, r.recorder = "None" \/ o = "raise")
    ELSE Ret(r, r.process = "None" \/ o = "raise")

(***************************************************************************)
(* RecorderSpec: one AudioRecorder, any sequence of calls.                 *)
(***************************************************************************)
NoCall == [op |-> "none", raised |-> FALSE, pre |-> AudioRecorder("sox")]

RecInit ==
    /\ rec \in {AudioRecorder(b) : b \in Backends}
    /\ hlast = NoCall
    /\ hcalls = 0

RecIdle ==
    /\ rec = AudioRecorder("sox")
    /\ hlast = NoCall
    /\ hcalls = 0

Called(op, s) ==
    /\ rec' = s.rec
    /\ hlast' = [op |-> op, raised |-> s.raised, pre |-> rec]
    /\ hcalls' = hcalls + 1
    /\ UNCHANGED <<readVars, segVars, waitVars, matchVars, probeVars, loopVars>>

HStart ==
    /\ hcalls < MaxCalls
    /\ \E o \in StartOutcomes : Called("start", start(rec, o))

HStop ==
    /\ hcalls < MaxCalls
    /\ \E o \in StopOutcomes : Called("stop", stop(rec, o))

HDelete ==
    /\ hcalls < MaxCalls
    /\ \E o \in StopOutcomes : Called("delete", delete(rec, o))

HRead ==
    /\ hcalls < MaxCalls
    /\ \E o \in ReadOutcomes : Called("read", read(rec, o))

RecNext == HStart \/ HStop \/ HDelete \/ HRead

(***************************************************************************)
(* AudioRecorder._read_sox at byte level (src/doraemon/audio.py:128-138).  *)
(* The capture process writes `stream` and exits; a pipe read of n bytes   *)
(* returns between 1 and n of the bytes not yet taken, or nothing once the *)
(* stream is exhausted.                                                    *)
(***************************************************************************)
Bytes == {0, 1, 255}

Min(a, b) == IF a < b THEN a ELSE b

RECURSIVE SeqsUpTo(_, _)
SeqsUpTo(S, n) ==
    IF n = 0 THEN {<<>>}
    ELSE LET shorter == SeqsUpTo(S, n - 1)
         IN  shorter \cup {Append(q, b) : q \in {x \in shorter : Len(x) = n - 1}, b \in S}

\* byte_count = self.frame_length * 2
ByteCount(L) == L * 2

\* self._process.stdout.read(byte_count - len(data))
ReadRequest(byte_count, have) == byte_count - have

\* Mutant of IsEndOfStream: a read shorter than asked for is taken as the end.
IsEndOfStreamShort(chunk, request) == Len(chunk) < request

\* "if not chunk: raise RuntimeError(...)"
IsEndOfStream(chunk, request) == Len(chunk) = 0

\* Mutant of Accumulate: the new chunk is put in front.
AccumulateInFront(d, chunk) == chunk \o d

\* data += chunk
Accumulate(d, chunk) == d \o chunk

\* One "<h": little-endian signed 16 bit.
Int16LE(lo, hi) ==
    LET u == lo + 256 * hi
    IN  IF u >= 32768 THEN u - 65536 ELSE u

\* struct.unpack(f"<{L}h", data): defined only for exactly 2*L bytes.
Unpack(L, d) == [i \in 1..L |-> Int16LE(d[2 * i - 1], d[2 * i])]

ReadInit ==
    /\ frame_length \in 1..MaxFrameLen
    /\ stream \in SeqsUpTo(Bytes, MaxStream)
    /\ rpos = 0
    /\ data = <<>>
    /\ rpc = "idle"
    /\ frame = <<>>
    /\ nframes = 0
    /\ lastChunk = -1
    /\ nchunks = 0
    /\ misses = 0

ReadIdle ==
    /\ frame_length = 1
    /\ stream = <<>>
    /\ rpos = 0
    /\ data = <<>>
    /\ rpc = "idle"
    /\ frame = <<>>
    /\ nframes = 0
    /\ lastChunk = -1
    /\ nchunks = 0
    /\ misses = 0

\* Entry of _read_sox: data = b"".
ReadBegin ==
    /\ rpc \in {"idle", "returned", "failed"}
    /\ misses < MaxMisses
    /\ data' = <<>>
    /\ rpc' = "loop"
    /\ lastChunk' = -1
    /\ nchunks' = 0
    /\ UNCHANGED <<frame_length, stream, rpos, frame, nframes, misses>>
    /\ UNCHANGED <<recVars, segVars, waitVars, matchVars, probeVars, loopVars>>

\* One iteration of the while loop, and the return when the loop ends.
ReadChunk ==
    /\ rpc = "loop"
    /\ LET byte_count == ByteCount(frame_length)
           request == ReadRequest(byte_count, Len(data))
           avail == Len(stream) - rpos
       IN  \E k \in 0..Min(request, avail) :
             /\ (k = 0) <=> (avail = 0)
             /\ LET chunk == SubSeq(stream, rpos + 1, rpos + k)
                    d1 == Accumulate(data, chunk)
                IN  /\ rpos' = rpos + k
                    /\ lastChunk' = k
                    /\ nchunks' = nchunks + 1
                    /\ IF IsEndOfStream(chunk, request)
                       THEN /\ rpc' = "failed"
                            /\ misses' = misses + 1
                            /\ UNCHANGED <<data, frame, nframes>>
                       ELSE /\ data' = d1
                            /\ UNCHANGED misses
                            /\ IF Len(d1) < byte_count
                               THEN /\ rpc' = "loop"
                                    /\ UNCHANGED <<frame, nframes>>
                               ELSE IF Len(d1) = byte_count
                               THEN /\ rpc' = "returned"
                                    /\ frame' = Unpack(frame_length, d1)
                                    /\ nframes' = nframes + 1
                               ELSE /\ rpc' = "struct.error"
                                    /\ UNCHANGED <<frame, nframes>>
    /\ UNCHANGED <<frame_length, stream>>
    /\ UNCHANGED <<recVars, segVars, waitVars, matchVars, probeVars, loopVars>>

ReadNext == ReadBegin \/ ReadChunk

(***************************************************************************)
(* The segment recorders: _record_segment_termux (wake_word.py:213-329),   *)
(* used by the wake-word loop, and _record_raw_termux (listener.py:20-138),*)
(* used by the phrase listener.  One step per external interaction; the    *)
(* outcome of each interaction is an input of its step.  Payloads are      *)
(* modelled by their length in bytes.                                      *)
(***************************************************************************)
\* "if data and len(data) >= 100"
MinBytes == 100
\* "for _ in range(3)" / "for _ in range(5)"
PollsWake == 3
PollsPhrase == 5

ToolSets == [termux_rec : BOOLEAN, ffmpeg : BOOLEAN, opusdec : BOOLEAN, sox : BOOLEAN]
\* Lengths the output file can have once written, and lengths of a decoder's
\* or of sox's output.
FileSizes == {0, MinBytes - 1, MinBytes}
OutSizes == {0, MinBytes - 50, MinBytes + 100}
\* How a subprocess.run(..., timeout=...) can end.
RunOutcomes == {"exit0", "nonzero", "timeout"}

\* A timeout= argument of t seconds.
Secs(t) == [given |-> TRUE, sec |-> t]

\* Mutant of Timeout: subprocess.run is called without timeout=.
TimeoutOmitted(who, cmd, duration) == [given |-> FALSE, sec |-> 0]

\* The timeout= argument of each subprocess.run call: wake_word.py:251, 288,
\* 323 and listener.py:47, 82, 98, 132.
Timeout(who, cmd, duration) ==
    IF cmd = "sox" THEN Secs(duration + 5)
    ELSE IF who = "wake" THEN Secs(10)
    ELSE IF cmd = "termux-microphone-record" THEN Secs(duration + 12)
    ELSE Secs(15)

\* subprocess.run waits for the child: with a timeout the wait ends, at the
\* latest, in TimeoutExpired; without one a child that never exits blocks the
\* caller for good.
RunEnds(t) == IF t.given THEN RunOutcomes ELSE {"exit0", "nonzero", "blocks"}

\* The caller stays inside subprocess.run.
SegBlocks == spc' = "blocked"

Pending == [kind |-> "pending", size |-> 0]
NoneNone == [kind |-> "None", size |-> 0]
Raised == [kind |-> "raised", size |-> 0]
Segment(n) == [kind |-> "segment", size |-> n]

NoFile == [ready |-> 0, size |-> 0]

SegInit ==
    /\ tools \in ToolSets
    /\ swho = "none"
    /\ spc = "idle"
    /\ sfile = NoFile
    /\ spolls = 0
    /\ sdata = 0
    /\ sfiles = {}
    /\ slaunched = <<>>
    /\ sprimary = "skipped"
    /\ sout = Pending
    /\ scalls = 0
    /\ sduration = 0
    /\ stimeouts = <<>>

SegIdle ==
    /\ tools = [termux_rec |-> TRUE, ffmpeg |-> TRUE, opusdec |-> TRUE, sox |-> TRUE]
    /\ swho = "none"
    /\ spc = "idle"
    /\ sfile = NoFile
    /\ spolls = 0
    /\ sdata = 0
    /\ sfiles = {}
    /\ slaunched = <<>>
    /\ sprimary = "skipped"
    /\ sout = Pending
    /\ scalls = 0
    /\ sduration = 0
    /\ stimeouts = <<>>

\* Entry of a recorder: the locals of the call.
SegEnter(who, duration) ==
    /\ swho' = who
    /\ sduration' = duration
    /\ stimeouts' = <<>>
    /\ spc' = "which"
    /\ sfile' = NoFile
    /\ spolls' = 0
    /\ sdata' = 0
    /\ slaunched' = <<>>
    /\ sprimary' = "skipped"
    /\ sout' = Pending
    /\ UNCHANGED <<tools, sfiles>>

\* "return x, sample_rate" / "return None, None" / an exception leaving the call.
SegReturn(result) ==
    /\ spc' = "done"
    /\ sout' = result

\* _record_segment_termux: every miss of the primary strategy is
\* "return None, None" (lines 271, 293, 300).
PrimaryMissWake == SegReturn(NoneNone)

\* _record_raw_termux: every miss of the primary strategy leaves the
\* "if termux_rec and ffmpeg_path:" block and reaches line 112.
PrimaryMissPhrase ==
    /\ spc' = "sox_which"
    /\ UNCHANGED sout

PrimaryMiss == IF swho = "wake" THEN PrimaryMissWake ELSE PrimaryMissPhrase

Polls == IF swho = "wake" THEN PollsWake ELSE PollsPhrase

\* shutil.which("termux-microphone-record"), shutil.which("ffmpeg")
SegWhich ==
    /\ spc = "which"
    /\ IF tools.termux_rec /\ tools.ffmpeg
       THEN spc' = "mkdir" /\ sprimary' = "running"
       ELSE spc' = "sox_which" /\ UNCHANGED sprimary
    /\ UNCHANGED <<tools, swho, sduration, sfile, spolls, sdata, sfiles, slaunched, stimeouts, sout, scalls>>

\* The cache directory.  wake_word.py:231-239 is outside the try block, so a
\* filesystem error leaves the call; listener.py:33-35 is inside it.
SegMkdir ==
    /\ spc = "mkdir"
    /\ \E ok \in BOOLEAN :
         IF ok THEN spc' = "rec_run" /\ UNCHANGED <<sprimary, sout>>
         ELSE IF swho = "wake"
              THEN sprimary' = "failed" /\ SegReturn(Raised)
              ELSE sprimary' = "failed" /\ PrimaryMiss
    /\ UNCHANGED <<tools, swho, sduration, sfile, spolls, sdata, sfiles, slaunched, stimeouts, scalls>>

\* subprocess.run([termux_rec, ...], timeout=...), then time.sleep(...).
\* The utility records in the background: the file reaches its final size
\* at poll number sfile.ready (0: it is never written).
SegRunRecorder ==
    /\ spc = "rec_run"
    /\ slaunched' = Append(slaunched, "termux-microphone-record")
    /\ stimeouts' = Append(stimeouts, Timeout(swho, "termux-microphone-record", sduration))
    /\ \E how \in RunEnds(Timeout(swho, "termux-microphone-record", sduration)) \ {"nonzero"},
          ready \in 0..MaxReady, size \in FileSizes :
         /\ sfile' = [ready |-> ready, size |-> IF ready = 0 THEN 0 ELSE size]
         /\ sfiles' = IF ready # 0 THEN sfiles \cup {"rec"} ELSE sfiles
         /\ IF how = "exit0"
            THEN spc' = "poll" /\ UNCHANGED <<sprimary, sout>>
            ELSE IF how = "blocks"
            THEN SegBlocks /\ UNCHANGED <<sprimary, sout>>
            ELSE sprimary' = "failed" /\ PrimaryMiss
    /\ UNCHANGED <<tools, swho, sduration, spolls, sdata, scalls>>

\* Mutant of PayloadUsable: any non-empty payload passes.
PayloadUsableNonEmpty(n) == n > 0

\* "if data and len(data) >= 100" (wake_word.py:261, 268; listener.py:58, 65)
PayloadUsable(n) == n > 0 /\ n >= MinBytes

\* One iteration of the polling loop: open and read the file, break when it
\* holds at least MinBytes, otherwise sleep one second.
SegPoll ==
    /\ spc = "poll"
    /\ LET n == spolls + 1
           there == sfile.ready # 0 /\ n >= sfile.ready
           got == IF there THEN sfile.size ELSE 0
       IN  /\ spolls' = n
           /\ sdata' = got
           /\ spc' = IF PayloadUsable(got) \/ n = Polls THEN "unlink" ELSE "poll"
    /\ UNCHANGED <<tools, swho, sduration, sfile, sfiles, slaunched, stimeouts, sprimary, sout, scalls>>

\* os.unlink(rec_path) with its failure swallowed, then the size gate.  The
\* phrase recorder writes the payload to a temporary .ogg file for its
\* decoders; the wake recorder pipes it to ffmpeg.
SegUnlink ==
    /\ spc = "unlink"
    /\ LET there == sfile.ready # 0 /\ spolls >= sfile.ready
           kept == IF there THEN sfiles \ {"rec"} ELSE sfiles
       IN  IF PayloadUsable(sdata)
           THEN /\ spc' = IF swho = "wake" THEN "ffmpeg" ELSE "opusdec"
                /\ sfiles' = IF swho = "wake" THEN kept ELSE kept \cup {"tmp"}
                /\ UNCHANGED <<sprimary, sout>>
           ELSE /\ sfiles' = kept
                /\ sprimary' = "failed"
                /\ PrimaryMiss
    /\ UNCHANGED <<tools, swho, sduration, sfile, spolls, sdata, slaunched, stimeouts, scalls>>

\* listener.py:70-85: opusdec, when installed, is tried first.
SegOpusdec ==
    /\ spc = "opusdec"
    /\ swho = "phrase"
    /\ IF ~tools.opusdec
       THEN /\ spc' = "ffmpeg"
            /\ UNCHANGED <<slaunched, stimeouts, sfiles, sprimary, sout>>
       ELSE /\ slaunched' = Append(slaunched, "opusdec")
            /\ stimeouts' = Append(stimeouts, Timeout(swho, "opusdec", sduration))
            /\ \E how \in RunEnds(Timeout(swho, "opusdec", sduration)), n \in OutSizes :
                 IF how = "exit0" /\ n > 0
                 THEN /\ sfiles' = sfiles \ {"tmp"}
                      /\ sprimary' = "ok"
                      /\ SegReturn(Segment(n))
                 ELSE IF how = "blocks"
                 THEN SegBlocks /\ UNCHANGED <<sfiles, sprimary, sout>>
                 ELSE IF how = "timeout"
                 THEN /\ sfiles' = sfiles \ {"tmp"}
                      /\ sprimary' = "failed"
                      /\ PrimaryMiss
                 ELSE /\ spc' = "ffmpeg"
                      /\ UNCHANGED <<sfiles, sprimary, sout>>
    /\ UNCHANGED <<tools, swho, sduration, sfile, spolls, sdata, scalls>>

\* The ffmpeg decode: wake_word.py:275-296 (stdin pipe) and
\* listener.py:86-106 (temporary file, removed in the finally block).
SegFfmpeg ==
    /\ spc = "ffmpeg"
    /\ slaunched' = Append(slaunched, "ffmpeg")
    /\ stimeouts' = Append(stimeouts, Timeout(swho, "ffmpeg", sduration))
    /\ \E how \in RunEnds(Timeout(swho, "ffmpeg", sduration)), n \in OutSizes :
         IF how = "exit0" /\ n > 0
         THEN sfiles' = sfiles \ {"tmp"} /\ sprimary' = "ok" /\ SegReturn(Segment(n))
         ELSE IF how = "blocks"
         THEN SegBlocks /\ UNCHANGED <<sfiles, sprimary, sout>>
         ELSE sfiles' = sfiles \ {"tmp"} /\ sprimary' = "failed" /\ PrimaryMiss
    /\ UNCHANGED <<tools, swho, sduration, sfile, spolls, sdata, scalls>>

\* shutil.which("sox"); "if not sox_path: return None, None"
SegSoxWhich ==
    /\ spc = "sox_which"
    /\ IF tools.sox THEN spc' = "sox_run" /\ UNCHANGED sout
       ELSE SegReturn(NoneNone)
    /\ UNCHANGED <<tools, swho, sduration, sfile, spolls, sdata, sfiles, slaunched, stimeouts, sprimary, scalls>>

\* subprocess.run([sox_path, ...], timeout=duration + 5)
SegSoxRun ==
    /\ spc = "sox_run"
    /\ slaunched' = Append(slaunched, "sox")
    /\ stimeouts' = Append(stimeouts, Timeout(swho, "sox", sduration))
    /\ \E how \in RunEnds(Timeout(swho, "sox", sduration)), n \in OutSizes :
         IF how = "exit0" /\ n > 0
         THEN SegReturn(Segment(n))
         ELSE IF how = "blocks"
         THEN SegBlocks /\ UNCHANGED sout
         ELSE SegReturn(NoneNone)
    /\ UNCHANGED <<tools, swho, sduration, sfile, spolls, sdata, sfiles, sprimary, scalls>>

\* SegSpec: either recorder is called, one call after the other, with any
\* duration up to MaxDuration seconds.
Durations == 1..MaxDuration

CallRecordSegmentTermux ==
    /\ spc \in {"idle", "done"}
    /\ scalls < MaxSegCalls
    /\ scalls' = scalls + 1
    /\ \E duration \in Durations : SegEnter("wake", duration)
    /\ UNCHANGED <<recVars, readVars, waitVars, matchVars, probeVars, loopVars>>

CallRecordRawTermux ==
    /\ spc \in {"idle", "done"}
    /\ scalls < MaxSegCalls
    /\ scalls' = scalls + 1
    /\ \E duration \in Durations : SegEnter("phrase", duration)
    /\ UNCHANGED <<recVars, readVars, waitVars, matchVars, probeVars, loopVars>>

SegWhichStep == SegWhich /\ UNCHANGED <<recVars, readVars, waitVars, matchVars, probeVars, loopVars>>
SegMkdirStep == SegMkdir /\ UNCHANGED <<recVars, readVars, waitVars, matchVars, probeVars, loopVars>>
SegRunRecorderStep == SegRunRecorder /\ UNCHANGED <<recVars, readVars, waitVars, matchVars, probeVars, loopVars>>
SegPollStep == SegPoll /\ UNCHANGED <<recVars, readVars, waitVars, matchVars, probeVars, loopVars>>
SegUnlinkStep == SegUnlink /\ UNCHANGED <<recVars, readVars, waitVars, matchVars, probeVars, loopVars>>
SegOpusdecStep == SegOpusdec /\ UNCHANGED <<recVars, readVars, waitVars, matchVars, probeVars, loopVars>>
SegFfmpegStep == SegFfmpeg /\ UNCHANGED <<recVars, readVars, waitVars, matchVars, probeVars, loopVars>>
SegSoxWhichStep == SegSoxWhich /\ UNCHANGED <<recVars, readVars, waitVars, matchVars, probeVars, loopVars>>
SegSoxRunStep == SegSoxRun /\ UNCHANGED <<recVars, readVars, waitVars, matchVars, probeVars, loopVars>>

SegNext ==
    \/ CallRecordSegmentTermux
    \/ CallRecordRawTermux
    \/ SegWhichStep
    \/ SegMkdirStep
    \/ SegRunRecorderStep
    \/ SegPollStep
    \/ SegUnlinkStep
    \/ SegOpusdecStep
    \/ SegFfmpegStep
    \/ SegSoxWhichStep
    \/ SegSoxRunStep

\* The steps of a call under way, which the calling thread goes on taking.
SegProgress ==
    \/ SegWhichStep
    \/ SegMkdirStep
    \/ SegRunRecorderStep
    \/ SegPollStep
    \/ SegUnlinkStep
    \/ SegOpusdecStep
    \/ SegFfmpegStep
    \/ SegSoxWhichStep
    \/ SegSoxRunStep

(***************************************************************************)
(* The wake-phrase match (src/doraemon/wake_word.py:199-210).  A string is *)
(* a sequence of one-character strings.                                    *)
(***************************************************************************)
\* str.lower() on the letters the model uses.
Lower(c) ==
    CASE c = "D" -> "d"
      [] c = "A" -> "a"
      [] c = "P" -> "p"
      [] c = "B" -> "b"
      [] c = "M" -> "m"
      [] c = "E" -> "e"
      [] OTHER -> c

ToLower(str) == [i \in 1..Len(str) |-> Lower(str[i])]

\* The character class of re.sub(r"[\s\-'\".,!?]+", "", ...)
StripChars == {" ", "\t", "\n", "-", "'", "\"", ".", ",", "!", "?"}

Kept(c) == c \notin StripChars

\* What is left of s after the longest run of class characters at its front:
\* the pattern ends in "+", so one match takes the whole run.
RECURSIVE SkipRun(_)
SkipRun(s) == IF s # <<>> /\ ~Kept(Head(s)) THEN SkipRun(Tail(s)) ELSE s

\* Mutant of re_sub: only the first match is replaced (count=1).
RECURSIVE re_sub_count1(_)
re_sub_count1(s) ==
    IF s = <<>> THEN <<>>
    ELSE IF Kept(Head(s)) THEN <<Head(s)>> \o re_sub_count1(Tail(s))
    ELSE SkipRun(s)

\* re.sub(pattern, "", s): every match of the pattern, left to right, is
\* replaced by the empty string.
RECURSIVE re_sub(_)
re_sub(s) ==
    IF s = <<>> THEN <<>>
    ELSE IF Kept(Head(s)) THEN <<Head(s)>> \o re_sub(Tail(s))
    ELSE re_sub(SkipRun(s))

\* normalise = lambda s: re.sub(..., "", s.lower())
normalise(str) == re_sub(ToLower(str))

\* Python's "sub in str"
Contains(sub, str) ==
    \E i \in 0..(Len(str) - Len(sub)) : SubSeq(str, i + 1, i + Len(sub)) = sub

\* Mutant of _matches_wake_word: the whole transcript must be the phrase.
_matches_wake_word_equal(text, wake_word) == normalise(wake_word) = normalise(text)

_matches_wake_word(text, wake_word) == Contains(normalise(wake_word), normalise(text))

\* config.WAKE_WORD, at its default "doraemon"
WAKE_WORD == <<"d", "o", "r", "a", "e", "m", "o", "n">>

\* config.WAKE_PHRASES split at its commas, set as in the example of
\* config.py:35-37 ("ok musica").
WAKE_PHRASES == { <<"o", "k", " ", "m", "u", "s", "i", "c", "a">> }

\* Transcripts the service may return: "dora e mon", "Doraemon!", "play", "",
\* "ok musica".
Transcripts ==
    { <<"d", "o", "r", "a", " ", "e", " ", "m", "o", "n">>,
      <<"D", "o", "r", "a", "e", "m", "o", "n", "!">>,
      <<"p", "l", "a", "y">>,
      <<>>,
      <<"o", "k", " ", "m", "u", "s", "i", "c", "a">> }

\* The transcriptions the docstring of _matches_wake_word lists besides the
\* ones above: "Dora Emon", "Doremon", "Dora Amon".
DocstringTranscripts ==
    { <<"D", "o", "r", "a", " ", "E", "m", "o", "n">>,
      <<"D", "o", "r", "e", "m", "o", "n">>,
      <<"D", "o", "r", "a", " ", "A", "m", "o", "n">> }

\* A transcript without the wake word: "play avenged sevenfold".
PlayAvengedSevenfold ==
    <<"p", "l", "a", "y", " ", "a", "v", "e", "n", "g", "e", "d", " ",
      "s", "e", "v", "e", "n", "f", "o", "l", "d">>

(***************************************************************************)
(* MatchSpec: _matches_wake_word applied to one transcript and one phrase. *)
(***************************************************************************)
MaxTextLen == 3
MaxWordLen == 2

MatchAlphabet == {"a", "B", " ", "-", "!"}

\* Every string up to MaxTextLen over the alphabet, a letter pair around each
\* character of the class, and the transcripts named above.
Texts ==
    SeqsUpTo(MatchAlphabet, MaxTextLen)
        \cup {<<"a", c, "B">> : c \in StripChars}
        \cup Transcripts \cup DocstringTranscripts \cup {PlayAvengedSevenfold}

Words == SeqsUpTo(MatchAlphabet, MaxWordLen) \cup {WAKE_WORD} \cup WAKE_PHRASES

MatchInit ==
    /\ mtext \in Texts
    /\ mword \in Words
    /\ mpc = "ready"
    /\ mresult = FALSE
    /\ mnorm = <<>>
    /\ mnorm2 = <<>>

MatchIdle ==
    /\ mtext = <<>>
    /\ mword = <<>>
    /\ mpc = "idle"
    /\ mresult = FALSE
    /\ mnorm = <<>>
    /\ mnorm2 = <<>>

\* One call of _matches_wake_word(text, wake_word); the normal form of the
\* transcript, and the normal form of that, are kept beside the result.
CallMatchesWakeWord ==
    /\ mpc = "ready"
    /\ mresult' = _matches_wake_word(mtext, mword)
    /\ mnorm' = normalise(mtext)
    /\ mnorm2' = normalise(normalise(mtext))
    /\ mpc' = "done"
    /\ UNCHANGED <<mtext, mword>>
    /\ UNCHANGED <<recVars, readVars, segVars, waitVars, probeVars, loopVars>>

MatchNext == CallMatchesWakeWord

(***************************************************************************)
(* wait_for_wake_word (src/doraemon/wake_word.py:174-192, 332-413): one    *)
(* call, in either mode, with a cancellation signal that another thread    *)
(* may set at any moment.                                                  *)
(***************************************************************************)
\* "stop_event is not None and stop_event.is_set()"
Cancelled(ev) == ev = "set"

\* Mutant of KeywordDetected: the "no keyword" index -1 counts as a detection.
KeywordDetectedOffByOne(idx) == idx >= -1

\* "if keyword_index >= 0"
KeywordDetected(idx) == idx >= 0

RecognizeOutcomes ==
    {[kind |-> k, text |-> <<>>] : k \in {"UnknownValueError", "RequestError"}}
        \cup {[kind |-> "Recognized", text |-> t] : t \in Transcripts}

NotHeard == [kind |-> "none", text |-> <<>>]

\* Mutant of AfterRecognize: the service error is not caught.
AfterRecognizeErrorEscapes(o) ==
    CASE o.kind = "UnknownValueError" -> "continue"
      [] o.kind = "RequestError" -> "raise"
      [] OTHER -> IF o.text = <<>> THEN "continue"
                  ELSE IF _matches_wake_word(o.text, ToLower(WAKE_WORD)) THEN "return True"
                  ELSE "continue"

\* wake_word.py:379-396: what the loop does with the service's answer.
AfterRecognize(o) ==
    CASE o.kind = "UnknownValueError" -> "continue"
      [] o.kind = "RequestError" -> "continue"
      [] OTHER -> IF o.text = <<>> THEN "continue"
                  ELSE IF _matches_wake_word(o.text, ToLower(WAKE_WORD)) THEN "return True"
                  ELSE "continue"

Bump(n) == IF n < 2 THEN n + 1 ELSE n

\* The platform and the result of the backend probe: desktop, Termux with
\* the native engine, Termux without it.
Platforms == {<<FALSE, TRUE>>, <<TRUE, TRUE>>, <<TRUE, FALSE>>}

WaitInit ==
    /\ \E pf \in Platforms : IS_TERMUX = pf[1] /\ porcupine_mod = pf[2]
    /\ stop_event \in {"absent", "clear", "set"}
    /\ wpc = "call"
    /\ porcupine = "none"
    /\ pipe = "closed"
    /\ wpending = "none"
    /\ wret = "none"
    /\ keyword_index = -2
    /\ heard = NotHeard
    /\ lastOutcome = "none"
    /\ prevOutcome = "none"
    /\ readsAfterSet = 0
    /\ classifiedAfterSet = 0
    /\ setDuringRead = FALSE

WaitIdle ==
    /\ IS_TERMUX = FALSE
    /\ porcupine_mod = TRUE
    /\ stop_event = "absent"
    /\ wpc = "idle"
    /\ porcupine = "none"
    /\ pipe = "closed"
    /\ wpending = "none"
    /\ wret = "none"
    /\ keyword_index = -2
    /\ heard = NotHeard
    /\ lastOutcome = "none"
    /\ prevOutcome = "none"
    /\ readsAfterSet = 0
    /\ classifiedAfterSet = 0
    /\ setDuringRead = FALSE

\* Mutant of DispatchTarget: the cached probe result is not consulted.
DispatchTargetIgnoresCache(is_termux, mod) == "create"

\* wait_for_wake_word, lines 411-413: "sr_top" is the entry of
\* _wait_speech_recognition, "create" the entry of _wait_porcupine.
DispatchTarget(is_termux, mod) == IF is_termux /\ ~mod THEN "sr_top" ELSE "create"

\* wait_for_wake_word: the dispatch on the cached probe result.
Dispatch ==
    /\ wpc = "call"
    /\ wpc' = DispatchTarget(IS_TERMUX, porcupine_mod)
    /\ UNCHANGED <<IS_TERMUX, porcupine_mod, stop_event, porcupine, pipe, wpending, wret,
                   keyword_index, heard, lastOutcome, prevOutcome, readsAfterSet,
                   classifiedAfterSet, setDuringRead>>
    /\ UNCHANGED <<recVars, readVars, segVars, matchVars, probeVars, loopVars>>

\* _wait_porcupine, lines 178-179: the engine handle, then the AudioRecorder
\* object (whose constructor acquires nothing).
CreatePorcupine ==
    /\ wpc = "create"
    /\ \E ok \in BOOLEAN :
         IF ok
         THEN /\ porcupine' = "live"
              /\ rec' = AudioRecorder(IF IS_TERMUX THEN "sox" ELSE "pvrecorder")
              /\ wpc' = "start"
              /\ UNCHANGED wret
         ELSE /\ wret' = "raised"
              /\ wpc' = "done"
              /\ UNCHANGED <<porcupine, rec>>
    /\ UNCHANGED <<IS_TERMUX, porcupine_mod, stop_event, pipe, wpending, keyword_index,
                   heard, lastOutcome, prevOutcome, readsAfterSet, classifiedAfterSet,
                   setDuringRead>>
    /\ UNCHANGED <<hlast, hcalls, readVars, segVars, matchVars, probeVars, loopVars>>

\* Line 182: recorder.start()
RecorderStart ==
    /\ wpc = "start"
    /\ \E o \in StartOutcomes :
         LET s == start(rec, o)
         IN  /\ rec' = s.rec
             /\ pipe' = IF s.rec.process = "Popen" THEN "flowing" ELSE pipe
             /\ IF s.raised
                THEN wpending' = "raise" /\ wpc' = "finally"
                ELSE wpc' = "top" /\ UNCHANGED wpending
    /\ UNCHANGED <<IS_TERMUX, porcupine_mod, stop_event, porcupine, wret, keyword_index,
                   heard, lastOutcome, prevOutcome, readsAfterSet, classifiedAfterSet,
                   setDuringRead>>
    /\ UNCHANGED <<hlast, hcalls, readVars, segVars, matchVars, probeVars, loopVars>>

\* Lines 184-186: the check at the top of the loop; when it passes, the
\* read() begins.
LoopTop ==
    /\ wpc = "top"
    /\ IF Cancelled(stop_event)
       THEN /\ wpending' = "False"
            /\ wpc' = "finally"
            /\ UNCHANGED <<readsAfterSet, keyword_index>>
       ELSE /\ wpc' = "read"
            /\ keyword_index' = -2
            /\ readsAfterSet' = IF stop_event = "set" THEN Bump(readsAfterSet)
                                ELSE readsAfterSet
            /\ UNCHANGED wpending
    /\ UNCHANGED <<IS_TERMUX, porcupine_mod, stop_event, porcupine, pipe, wret, heard,
                   lastOutcome, prevOutcome, classifiedAfterSet, setDuringRead>>
    /\ UNCHANGED <<recVars, readVars, segVars, matchVars, probeVars, loopVars>>

\* Line 186: recorder.read() completes.  The native device answers with a
\* frame or an error; the pipe of the sox process delivers a frame while it
\* flows, ends the read with RuntimeError once closed, and while it is
\* stalled the read stays blocked (audio.py:133 reads with no timeout).
RecorderRead ==
    /\ wpc = "read"
    /\ rec.backend = "sox" => pipe # "stalled"
    /\ \E o \in ReadOutcomes :
         /\ rec.backend = "sox" => (o = "raise") = (pipe = "closed")
         /\ IF read(rec, o).raised
            THEN wpending' = "raise" /\ wpc' = "finally"
            ELSE wpc' = "process" /\ UNCHANGED wpending
    /\ UNCHANGED <<IS_TERMUX, porcupine_mod, stop_event, porcupine, pipe, wret,
                   keyword_index, heard, lastOutcome, prevOutcome, readsAfterSet,
                   classifiedAfterSet, setDuringRead>>
    /\ UNCHANGED <<recVars, readVars, segVars, matchVars, probeVars, loopVars>>

\* Lines 187-189: porcupine.process(frame) and the test of its result.
Process ==
    /\ wpc = "process"
    /\ classifiedAfterSet' = IF stop_event = "set" THEN Bump(classifiedAfterSet)
                             ELSE classifiedAfterSet
    /\ \E idx \in {-1, 0}, raises \in BOOLEAN :
         IF raises
         THEN wpending' = "raise" /\ wpc' = "finally" /\ UNCHANGED keyword_index
         ELSE /\ keyword_index' = idx
              /\ IF KeywordDetected(idx)
                 THEN wpending' = "True" /\ wpc' = "finally"
                 ELSE wpc' = "top" /\ UNCHANGED wpending
    /\ UNCHANGED <<IS_TERMUX, porcupine_mod, stop_event, porcupine, pipe, wret, heard,
                   lastOutcome, prevOutcome, readsAfterSet, setDuringRead>>
    /\ UNCHANGED <<recVars, readVars, segVars, matchVars, probeVars, loopVars>>

\* Lines 190-192: "finally: recorder.delete(); porcupine.delete()".  What
\* recorder.delete() raises skips porcupine.delete() and replaces the
\* pending return.
Finally ==
    /\ wpc = "finally"
    /\ \E o \in StopOutcomes, pdelete \in {"ok", "raise"} :
         LET d == delete(rec, o)
         IN  /\ rec' = d.rec
             /\ pipe' = IF d.rec.process = "None" THEN "closed" ELSE pipe
             /\ IF d.raised
                THEN wret' = "raised" /\ UNCHANGED porcupine
                ELSE /\ porcupine' = "deleted"
                     /\ wret' = IF pdelete = "raise" \/ wpending = "raise" THEN "raised"
                                ELSE wpending
    /\ wpc' = "done"
    /\ UNCHANGED <<IS_TERMUX, porcupine_mod, stop_event, wpending, keyword_index, heard,
                   lastOutcome, prevOutcome, readsAfterSet, classifiedAfterSet,
                   setDuringRead>>
    /\ UNCHANGED <<hlast, hcalls, readVars, segVars, matchVars, probeVars, loopVars>>

\* _wait_speech_recognition, lines 365-369: the check at the top of the
\* loop; when it passes, _record_segment_termux is entered.
segment_duration == 3

SrTop ==
    /\ wpc = "sr_top"
    /\ prevOutcome' = lastOutcome
    /\ lastOutcome' = "none"
    /\ IF Cancelled(stop_event)
       THEN /\ wret' = "False"
            /\ wpc' = "done"
            /\ UNCHANGED segVars
       ELSE /\ wpc' = "sr_recording"
            /\ SegEnter("wake", segment_duration)
            /\ UNCHANGED <<scalls, wret>>
    /\ UNCHANGED <<IS_TERMUX, porcupine_mod, stop_event, porcupine, pipe, wpending,
                   keyword_index, heard, readsAfterSet, classifiedAfterSet, setDuringRead>>
    /\ UNCHANGED <<recVars, readVars, matchVars, probeVars, loopVars>>

\* Lines 369-373: _record_segment_termux has returned (or raised).
SrAfterRecord ==
    /\ wpc = "sr_recording"
    /\ spc = "done"
    /\ spc' = "idle"
    /\ IF sout.kind = "raised"
       THEN wret' = "raised" /\ wpc' = "done" /\ UNCHANGED lastOutcome
       ELSE IF sout.kind = "None" \/ sout.size = 0
       THEN lastOutcome' = "capture failure" /\ wpc' = "sr_top" /\ UNCHANGED wret
       ELSE wpc' = "sr_recognize" /\ UNCHANGED <<wret, lastOutcome>>
    /\ UNCHANGED <<IS_TERMUX, porcupine_mod, stop_event, porcupine, pipe, wpending,
                   keyword_index, heard, prevOutcome, readsAfterSet, classifiedAfterSet,
                   setDuringRead>>
    /\ UNCHANGED <<tools, swho, sduration, sfile, spolls, sdata, sfiles, slaunched, stimeouts, sprimary, sout,
                   scalls>>
    /\ UNCHANGED <<recVars, readVars, matchVars, probeVars, loopVars>>

\* The outcome of an iteration, named from the service's answer alone.
OutcomeOf(o) ==
    CASE o.kind = "UnknownValueError" -> "NoSpeechDetected"
      [] o.kind = "RequestError" -> "ServiceError"
      [] OTHER -> IF o.text = <<>> THEN "empty transcript"
                  ELSE IF Contains(normalise(WAKE_WORD), normalise(o.text)) THEN "match"
                  ELSE "no match"

\* Lines 379-396: recognize_google and what follows it.
SrRecognize ==
    /\ wpc = "sr_recognize"
    /\ \E o \in RecognizeOutcomes :
         /\ heard' = o
         /\ lastOutcome' = OutcomeOf(o)
         /\ LET nxt == AfterRecognize(o)
            IN  IF nxt = "return True" THEN wret' = "True" /\ wpc' = "done"
                ELSE IF nxt = "raise" THEN wret' = "raised" /\ wpc' = "done"
                ELSE wpc' = "sr_top" /\ UNCHANGED wret
    /\ UNCHANGED <<IS_TERMUX, porcupine_mod, stop_event, porcupine, pipe, wpending,
                   keyword_index, prevOutcome, readsAfterSet, classifiedAfterSet,
                   setDuringRead>>
    /\ UNCHANGED <<recVars, readVars, segVars, matchVars, probeVars, loopVars>>

\* Another thread sets the cancellation signal.
SetStopEvent ==
    /\ stop_event = "clear"
    /\ wpc \notin {"done", "idle"}
    /\ stop_event' = "set"
    /\ setDuringRead' = (setDuringRead \/ wpc = "read")
    /\ UNCHANGED <<IS_TERMUX, porcupine_mod, wpc, porcupine, pipe, wpending, wret,
                   keyword_index, heard, lastOutcome, prevOutcome, readsAfterSet,
                   classifiedAfterSet>>
    /\ UNCHANGED <<recVars, readVars, segVars, matchVars, probeVars, loopVars>>

\* The sox process stops producing output, produces again, or exits.
PipeChange ==
    /\ rec.process = "Popen"
    /\ wpc \in {"top", "read", "process"}
    /\ \E p \in {"flowing", "stalled", "closed"} :
         /\ p # pipe
         /\ pipe # "closed"
         /\ pipe' = p
    /\ UNCHANGED <<IS_TERMUX, porcupine_mod, stop_event, wpc, porcupine, wpending, wret,
                   keyword_index, heard, lastOutcome, prevOutcome, readsAfterSet,
                   classifiedAfterSet, setDuringRead>>
    /\ UNCHANGED <<recVars, readVars, segVars, matchVars, probeVars, loopVars>>

\* The steps of the thread that runs wait_for_wake_word.
WaitStep ==
    \/ Dispatch
    \/ CreatePorcupine
    \/ RecorderStart
    \/ LoopTop
    \/ RecorderRead
    \/ Process
    \/ Finally
    \/ SrTop
    \/ SegWhichStep
    \/ SegMkdirStep
    \/ SegRunRecorderStep
    \/ SegPollStep
    \/ SegUnlinkStep
    \/ SegFfmpegStep
    \/ SegSoxWhichStep
    \/ SegSoxRunStep
    \/ SrAfterRecord
    \/ SrRecognize

WaitNext == WaitStep \/ SetStopEvent \/ PipeChange

(***************************************************************************)
(* Backend resolution (src/doraemon/wake_word.py:28-146): the module-level *)
(* code that runs once, when wake_word is imported, followed by any number *)
(* of wait_for_wake_word calls.  The outcome of every import, of the read  *)
(* of /proc/cpuinfo and of the library load is an input of its step.       *)
(***************************************************************************)
MaxWaitCalls == 3
MaxCheckOutputCalls == 2

waitLocals == <<stop_event, wpc, porcupine, pipe, wpending, wret, keyword_index, heard,
                lastOutcome, prevOutcome, readsAfterSet, classifiedAfterSet,
                setDuringRead>>

_MOBILE_CPU_MAP ==
    [p \in {"0xd04", "0xd05", "0xd09", "0xd0a", "0xd0d", "0xd41", "0xd44", "0xd46",
            "0xd47", "0xd48", "0xd4d", "0xd4e"} |->
        IF p \in {"0xd04", "0xd05"} THEN "0xd03"
        ELSE IF p \in {"0xd09", "0xd0a"} THEN "0xd08"
        ELSE "0xd0b"]

\* What the "CPU part" line of /proc/cpuinfo can hold: a mapped part, a part
\* the engine supports itself, a part nobody knows, or no such line.
CpuParts == DOMAIN _MOBILE_CPU_MAP \cup {"0xd03", "0xb76", ""}

\* How "import pvporcupine" can end.
ImportOutcomes == {"ok", "ImportError", "NotImplementedError", "OSError"}

\* How cdll.LoadLibrary(pv_library_path()) can end.
LoadOutcomes == {"ok", "OSError", "Exception"}

\* Commands handed to subprocess.check_output: the list the probe and the
\* engine use, the same words as a tuple, and other lists.
CpuInfoCmd == [kind |-> "list", argv |-> <<"cat", "/proc/cpuinfo">>]

Commands ==
    { CpuInfoCmd,
      [kind |-> "tuple", argv |-> <<"cat", "/proc/cpuinfo">>],
      [kind |-> "list", argv |-> <<"cat", "/proc/cpuinfo", "-n">>],
      [kind |-> "list", argv |-> <<"uname", "-m">>] }

\* The output of a command, as its words.
Outputs(part) == { <<"CPU part", ":", part>>, <<part, "aarch64", part>>, <<"aarch64">> }

\* bytes.replace / str.replace on the words of an output
Replace(out, old, new) == [i \in 1..Len(out) |-> IF out[i] = old THEN new ELSE out[i]]

\* Lines 104-112.
_patched_check_output(cmd, result, actual, replacement) ==
    IF cmd.kind = "list" /\ cmd.argv = <<"cat", "/proc/cpuinfo">>
    THEN Replace(result, actual, replacement)
    ELSE result

\* Mutant of _verify_native_library: the module is returned whatever the load did.
_verify_native_library_unchecked(o) == TRUE

\* Lines 53-63: TRUE is the module, FALSE is None.
_verify_native_library(o) == o = "ok"

\* Mutant of AfterPatchedImport: the original function is put back only when
\* the import succeeded.
AfterPatchedImportNoFinally(o) ==
    [check_output |-> IF o = "ok" THEN "real" ELSE "patched", imported |-> o = "ok"]

\* Lines 114-124: "try: ... except Exception: ... return None / finally:
\* subprocess.check_output = _real_check_output".
AfterPatchedImport(o) == [check_output |-> "real", imported |-> o = "ok"]

NoProbe == [runs |-> 0, imports |-> 0, cpuinfo |-> 0, patches |-> 0, loads |-> 0]

NoCheckOutputCall == [cmd |-> CpuInfoCmd, raw |-> <<>>, seen |-> <<>>, patched |-> FALSE]

WaitLocalsIdle ==
    /\ stop_event = "absent"
    /\ wpc = "idle"
    /\ porcupine = "none"
    /\ pipe = "closed"
    /\ wpending = "none"
    /\ wret = "none"
    /\ keyword_index = -2
    /\ heard = NotHeard
    /\ lastOutcome = "none"
    /\ prevOutcome = "none"
    /\ readsAfterSet = 0
    /\ classifiedAfterSet = 0
    /\ setDuringRead = FALSE

ProbeInit ==
    /\ IS_TERMUX \in BOOLEAN
    /\ porcupine_mod = FALSE
    /\ WaitLocalsIdle
    /\ ppc = "start"
    /\ check_output = "real"
    /\ loadcheck = "not run"
    /\ actual_part = ""
    /\ pcalls = 0
    /\ pmodes = <<>>
    /\ nprobes = NoProbe
    /\ selected = "unset"
    /\ ncocalls = 0
    /\ lastcall = NoCheckOutputCall

ProbeIdle ==
    /\ ppc = "idle"
    /\ check_output = "real"
    /\ loadcheck = "not run"
    /\ actual_part = ""
    /\ pcalls = 0
    /\ pmodes = <<>>
    /\ nprobes = NoProbe
    /\ selected = "unset"
    /\ ncocalls = 0
    /\ lastcall = NoCheckOutputCall

\* "_porcupine_mod = ..." at module level: the name is bound.
Resolve(mod) ==
    /\ porcupine_mod' = mod
    /\ selected' = IF mod THEN "module" ELSE "None"
    /\ ppc' = "resolved"

\* An exception leaves the module-level code: the import of wake_word fails
\* and _porcupine_mod is never bound.
ProbeRaises ==
    /\ ppc' = "raised"
    /\ UNCHANGED <<porcupine_mod, selected>>

\* Line 146, desktop: "import pvporcupine as _porcupine_mod".
DesktopImport ==
    /\ ppc = "start"
    /\ ~IS_TERMUX
    /\ nprobes' = [nprobes EXCEPT !.runs = @ + 1, !.imports = @ + 1]
    /\ \E o \in ImportOutcomes : IF o = "ok" THEN Resolve(TRUE) ELSE ProbeRaises
    /\ UNCHANGED <<IS_TERMUX, waitLocals, check_output, loadcheck, actual_part, pcalls,
                   pmodes, ncocalls, lastcall>>
    /\ UNCHANGED <<recVars, readVars, segVars, matchVars, loopVars>>

\* Lines 136 and 74-81, Termux: the plain import.
FirstImport ==
    /\ ppc = "start"
    /\ IS_TERMUX
    /\ nprobes' = [nprobes EXCEPT !.runs = @ + 1, !.imports = @ + 1]
    /\ \E o \in ImportOutcomes :
         CASE o = "ok" -> ppc' = "verify" /\ UNCHANGED <<porcupine_mod, selected>>
           [] o = "ImportError" -> Resolve(FALSE)
           [] o = "NotImplementedError" ->
                ppc' = "cpuinfo" /\ UNCHANGED <<porcupine_mod, selected>>
           [] OTHER -> ProbeRaises
    /\ UNCHANGED <<IS_TERMUX, waitLocals, check_output, loadcheck, actual_part, pcalls,
                   pmodes, ncocalls, lastcall>>
    /\ UNCHANGED <<recVars, readVars, segVars, matchVars, loopVars>>

\* Lines 76 and 129: "return _verify_native_library(pvporcupine)".
VerifyNativeLibrary ==
    /\ ppc = "verify"
    /\ nprobes' = [nprobes EXCEPT !.loads = @ + 1]
    /\ \E o \in LoadOutcomes :
         /\ loadcheck' = IF o = "ok" THEN "passed" ELSE "failed"
         /\ Resolve(_verify_native_library(o))
    /\ UNCHANGED <<IS_TERMUX, waitLocals, check_output, actual_part, pcalls, pmodes,
                   ncocalls, lastcall>>
    /\ UNCHANGED <<recVars, readVars, segVars, matchVars, loopVars>>

\* Lines 84-93: the CPU part is read with the function check_output is bound
\* to; a failure of the read, or a part outside the mapping, ends the probe.
ReadCpuInfo ==
    /\ ppc = "cpuinfo"
    /\ nprobes' = [nprobes EXCEPT !.cpuinfo = @ + 1]
    /\ \E raises \in BOOLEAN, part \in CpuParts :
         IF raises THEN Resolve(FALSE) /\ UNCHANGED actual_part
         ELSE /\ actual_part' = part
              /\ IF part \notin DOMAIN _MOBILE_CPU_MAP THEN Resolve(FALSE)
                 ELSE ppc' = "patch" /\ UNCHANGED <<porcupine_mod, selected>>
    /\ UNCHANGED <<IS_TERMUX, waitLocals, check_output, loadcheck, pcalls, pmodes,
                   ncocalls, lastcall>>
    /\ UNCHANGED <<recVars, readVars, segVars, matchVars, loopVars>>

\* Lines 96-115: the partial imports are dropped and check_output is rebound.
InstallPatch ==
    /\ ppc = "patch"
    /\ check_output' = "patched"
    /\ nprobes' = [nprobes EXCEPT !.patches = @ + 1]
    /\ ppc' = "patched_import"
    /\ UNCHANGED <<IS_TERMUX, porcupine_mod, waitLocals, loadcheck, actual_part, pcalls,
                   pmodes, selected, ncocalls, lastcall>>
    /\ UNCHANGED <<recVars, readVars, segVars, matchVars, loopVars>>

\* Lines 116-124: the retried import ends.
PatchedImport ==
    /\ ppc = "patched_import"
    /\ nprobes' = [nprobes EXCEPT !.imports = @ + 1]
    /\ \E o \in ImportOutcomes :
         LET a == AfterPatchedImport(o)
         IN  /\ check_output' = a.check_output
             /\ IF a.imported
                THEN ppc' = "verify" /\ UNCHANGED <<porcupine_mod, selected>>
                ELSE Resolve(FALSE)
    /\ UNCHANGED <<IS_TERMUX, waitLocals, loadcheck, actual_part, pcalls, pmodes,
                   ncocalls, lastcall>>
    /\ UNCHANGED <<recVars, readVars, segVars, matchVars, loopVars>>

\* Some code of the process calls subprocess.check_output(cmd): the engine
\* during the retried import, any other code once the probe is over.
CheckOutputCall ==
    /\ ppc \in {"patched_import", "resolved", "raised"}
    /\ ncocalls < MaxCheckOutputCalls
    /\ ncocalls' = ncocalls + 1
    /\ \E cmd \in Commands, raw \in Outputs(actual_part) :
         lastcall' =
             [cmd |-> cmd, raw |-> raw, patched |-> check_output = "patched",
              seen |-> IF check_output = "patched"
                       THEN _patched_check_output(cmd, raw, actual_part,
                                                  _MOBILE_CPU_MAP[actual_part])
                       ELSE raw]
    /\ UNCHANGED <<IS_TERMUX, porcupine_mod, waitLocals, ppc, check_output, loadcheck,
                   actual_part, pcalls, pmodes, nprobes, selected>>
    /\ UNCHANGED <<recVars, readVars, segVars, matchVars, loopVars>>

\* A call of wait_for_wake_word, lines 411-413, taken as a whole: it reads
\* IS_TERMUX and _porcupine_mod and enters one of the two loops.
CallWaitForWakeWord ==
    /\ ppc = "resolved"
    /\ pcalls < MaxWaitCalls
    /\ pcalls' = pcalls + 1
    /\ pmodes' = Append(pmodes, DispatchTarget(IS_TERMUX, porcupine_mod))
    /\ UNCHANGED <<IS_TERMUX, porcupine_mod, waitLocals, ppc, check_output, loadcheck,
                   actual_part, nprobes, selected, ncocalls, lastcall>>
    /\ UNCHANGED <<recVars, readVars, segVars, matchVars, loopVars>>

ProbeNext ==
    \/ DesktopImport
    \/ FirstImport
    \/ VerifyNativeLibrary
    \/ ReadCpuInfo
    \/ InstallPatch
    \/ PatchedImport
    \/ CheckOutputCall
    \/ CallWaitForWakeWord

(***************************************************************************)
(* listen_for_song_name (src/doraemon/listener.py:141-189).  A Python      *)
(* value is None or a string; a string is a sequence of its characters.    *)
(***************************************************************************)
PyNone == [kind |-> "None", chars |-> <<>>]
Str(chars) == [kind |-> "str", chars |-> chars]
PyRaised == [kind |-> "raised", chars |-> <<>>]
PyPending == [kind |-> "pending", chars |-> <<>>]

\* The characters str.strip() removes, as far as the alphabet has them.
Whitespace == {" ", "\t"}

RECURSIVE lstrip(_)
lstrip(chars) ==
    IF chars = <<>> THEN chars
    ELSE IF Head(chars) \in Whitespace THEN lstrip(Tail(chars))
    ELSE chars

RECURSIVE rstrip(_)
rstrip(chars) ==
    IF chars = <<>> THEN chars
    ELSE IF chars[Len(chars)] \in Whitespace THEN rstrip(SubSeq(chars, 1, Len(chars) - 1))
    ELSE chars

\* str.strip()
strip(chars) == rstrip(lstrip(chars))

\* "x or y" on None and strings: x when it is truthy, otherwise y.
Or(x, y) == IF x.kind = "str" /\ x.chars # <<>> THEN x ELSE y

\* Mutant of ReturnValue: the stripped text is returned as it is.
ReturnValueStripped(text) == Str(strip(Or(text, Str(<<>>)).chars))

\* "return (text or "").strip() or None"
ReturnValue(text) == Or(Str(strip(Or(text, Str(<<>>)).chars)), PyNone)

\* config.PHRASE_TIME_LIMIT (its default)
PHRASE_TIME_LIMIT == 10

ListenAlphabet == {"x", " ", "\t"}
\* What recognize_google can return.
Recognized == {Str(t) : t \in SeqsUpTo(ListenAlphabet, MaxPhraseLen)} \cup {PyNone}

ListenInit ==
    /\ \E pf \in Platforms : IS_TERMUX = pf[1] /\ porcupine_mod = pf[2]
    /\ WaitLocalsIdle
    /\ lpc = "idle"
    /\ lcalls = 0
    /\ loutcome = "none"
    /\ lheard = PyNone
    /\ lret = PyPending

ListenIdle ==
    /\ lpc = "idle"
    /\ lcalls = 0
    /\ loutcome = "none"
    /\ lheard = PyNone
    /\ lret = PyPending

\* "return x" / an exception leaving listen_for_song_name
ListenReturn(outcome, value) ==
    /\ lpc' = "done"
    /\ loutcome' = outcome
    /\ lret' = value

\* listen_for_song_name is called.
CallListenForSongName ==
    /\ lpc \in {"idle", "done"}
    /\ lcalls < MaxListenCalls
    /\ lcalls' = lcalls + 1
    /\ lpc' = "capture"
    /\ loutcome' = "none"
    /\ lheard' = PyNone
    /\ lret' = PyPending
    /\ UNCHANGED <<recVars, readVars, segVars, waitVars, matchVars, probeVars, mainVars>>

\* Lines 164-165 and 149: on Termux _record_wav_termux calls _record_raw_termux.
ListenRecordTermux ==
    /\ lpc = "capture"
    /\ IS_TERMUX
    /\ lpc' = "recording"
    /\ SegEnter("phrase", PHRASE_TIME_LIMIT)
    /\ UNCHANGED <<scalls, lcalls, loutcome, lheard, lret>>
    /\ UNCHANGED <<recVars, readVars, waitVars, matchVars, probeVars, mainVars>>

\* Lines 150-152 and 166-167: "if not raw_data: return None", "if audio is
\* None: return None".
ListenAfterRecord ==
    /\ lpc = "recording"
    /\ spc = "done"
    /\ spc' = "idle"
    /\ IF sout.kind = "segment" /\ sout.size > 0
       THEN lpc' = "recognize" /\ UNCHANGED <<loutcome, lret>>
       ELSE ListenReturn("capture failure", PyNone)
    /\ UNCHANGED <<tools, swho, sduration, sfile, spolls, sdata, sfiles, slaunched, stimeouts,
                   sprimary, sout, scalls>>
    /\ UNCHANGED <<lcalls, lheard>>
    /\ UNCHANGED <<recVars, readVars, waitVars, matchVars, probeVars, mainVars>>

\* Lines 168-178: the desktop microphone.  sr.Microphone() raises OSError
\* when there is no input device; only WaitTimeoutError is caught.
ListenMicrophone ==
    /\ lpc = "capture"
    /\ ~IS_TERMUX
    /\ \E got \in {"audio", "WaitTimeoutError", "OSError"} :
         CASE got = "audio" -> lpc' = "recognize" /\ UNCHANGED <<loutcome, lret>>
           [] got = "WaitTimeoutError" -> ListenReturn("WaitTimeoutError", PyNone)
           [] got = "OSError" -> ListenReturn("OSError", PyRaised)
    /\ UNCHANGED <<lcalls, lheard>>
    /\ UNCHANGED <<recVars, readVars, segVars, waitVars, matchVars, probeVars, mainVars>>

\* Lines 183-189: recognize_google and the return statement.
ListenRecognize ==
    /\ lpc = "recognize"
    /\ \E got \in {"text", "UnknownValueError", "RequestError"}, text \in Recognized :
         IF got = "text"
         THEN lheard' = text /\ ListenReturn("text", ReturnValue(text))
         ELSE UNCHANGED lheard /\ ListenReturn(got, PyNone)
    /\ UNCHANGED lcalls
    /\ UNCHANGED <<recVars, readVars, segVars, waitVars, matchVars, probeVars, mainVars>>

ListenNext ==
    \/ CallListenForSongName
    \/ ListenRecordTermux
    \/ SegWhichStep
    \/ SegMkdirStep
    \/ SegRunRecorderStep
    \/ SegPollStep
    \/ SegUnlinkStep
    \/ SegOpusdecStep
    \/ SegFfmpegStep
    \/ SegSoxWhichStep
    \/ SegSoxRunStep
    \/ ListenAfterRecord
    \/ ListenMicrophone
    \/ ListenRecognize

(***************************************************************************)
(* main (src/main.py:28-96), with what it calls in feedback.py and         *)
(* player.py.                                                              *)
(***************************************************************************)
\* Mutant of porcupine_needed: the engine is taken to be needed everywhere.
porcupine_needed_always(is_termux, mod) == TRUE

\* "porcupine_needed = not IS_TERMUX or wake_word._porcupine_mod is not None"
porcupine_needed(is_termux, mod) == ~is_termux \/ mod

\* Values of WAKE_WORD_MODEL_PATH: unset, a relative path, an absolute path.
Paths == {"", "doraemon.ppn", "/models/doraemon.ppn"}
is_absolute(path) == path = "/models/doraemon.ppn"

\* _require_doraemon_ppn: a relative path is looked up under PROJECT_ROOT.
_require_doraemon_ppn(is_termux, mod, path, at_root) ==
    IF is_termux /\ ~mod THEN "return"
    ELSE IF path = "" THEN "exit 1"
    ELSE IF ~at_root THEN "exit 1"
    ELSE "return"

\* main, lines 49-55
Startup(is_termux, mod, key, path, at_root) ==
    IF porcupine_needed(is_termux, mod) /\ key = "" THEN "exit 1"
    ELSE IF porcupine_needed(is_termux, mod)
    THEN _require_doraemon_ppn(is_termux, mod, path, at_root)
    ELSE "return"

\* _create_porcupine: a relative path is looked up under the working
\* directory; without the file the built-in keyword is used.
_create_porcupine(key, path, at_cwd) ==
    IF key = "" THEN "ValueError"
    ELSE IF path # "" /\ at_cwd THEN "keyword_paths"
    ELSE "keywords"

\* _find_mpv
_find_mpv(installed) == IF installed THEN "ok" ELSE "FileNotFoundError"

\* _play_audio_file: only the run of mpv is inside "try ... except Exception".
_play_audio_file(installed) == _find_mpv(installed)

\* speak: _get_tts_path (gTTS, network) and _find_mpv come before the try.
speak(tts, installed) == IF tts # "ok" THEN tts ELSE _find_mpv(installed)

\* speak_phrase: a pre-recorded clip for "yes" and "playing" when the asset
\* is there, otherwise the template through speak.
speak_phrase(phrase_key, asset, tts, installed) ==
    IF phrase_key \in {"yes", "playing"} /\ asset
    THEN _play_audio_file(installed)
    ELSE speak(tts, installed)

\* play_song: the search is inside a try, _find_mpv is not, Popen is.
play_song(found, popen_ok, installed) ==
    IF ~found THEN "not_found"
    ELSE IF _find_mpv(installed) # "ok" THEN _find_mpv(installed)
    ELSE IF popen_ok THEN "playing"
    ELSE "not_found"

\* A phrase is kept whole, as one symbol.
StopPhrases == {<<"stop">>, <<"stop the music">>, <<"stop music">>}
SLEEP_PHRASES == {<<"go to sleep">>, <<"goodbye">>}
\* What listen_for_song_name gives main: None, a phrase, or an exception.
ListenResults ==
    {PyNone, PyRaised, Str(<<"stop">>), Str(<<"go to sleep">>), Str(<<"yesterday">>)}

Event(op, arg, out) == [op |-> op, arg |-> arg, out |-> out]

mainConfig == <<PICOVOICE_ACCESS_KEY, WAKE_WORD_MODEL_PATH, ppn_at_root, ppn_at_cwd, mpv>>

MainInit ==
    /\ \E pf \in Platforms : IS_TERMUX = pf[1] /\ porcupine_mod = pf[2]
    /\ WaitLocalsIdle
    /\ pc = "start"
    /\ PICOVOICE_ACCESS_KEY \in {"", "key"}
    /\ WAKE_WORD_MODEL_PATH \in Paths
    /\ ppn_at_root \in BOOLEAN
    /\ ppn_at_cwd \in BOOLEAN
    /\ WAKE_WORD_MODEL_PATH = "" => (~ppn_at_root /\ ~ppn_at_cwd)
    /\ is_absolute(WAKE_WORD_MODEL_PATH) => (ppn_at_root = ppn_at_cwd)
    /\ mpv \in BOOLEAN
    /\ cycles = 0
    /\ events = <<>>
    /\ phrase = PyNone
    /\ engine = "none"
    /\ ended = "no"

MainIdle ==
    /\ pc = "idle"
    /\ PICOVOICE_ACCESS_KEY = "key"
    /\ WAKE_WORD_MODEL_PATH = "doraemon.ppn"
    /\ ppn_at_root = TRUE
    /\ ppn_at_cwd = TRUE
    /\ mpv = TRUE
    /\ cycles = 0
    /\ events = <<>>
    /\ phrase = PyNone
    /\ engine = "none"
    /\ ended = "no"

\* Lines 49-58: the checks before the loop.
MainStartup ==
    /\ pc = "start"
    /\ IF Startup(IS_TERMUX, porcupine_mod, PICOVOICE_ACCESS_KEY, WAKE_WORD_MODEL_PATH,
                  ppn_at_root) = "exit 1"
       THEN pc' = "exited" /\ ended' = "exit 1"
       ELSE pc' = "wait" /\ UNCHANGED ended
    /\ UNCHANGED <<mainConfig, cycles, events, phrase, engine>>
    /\ UNCHANGED <<recVars, readVars, segVars, waitVars, matchVars, probeVars, listenVars>>

\* Line 62: wait_for_wake_word() starts an iteration.  It is called without a
\* stop event, so it returns True or raises; in the native mode it first
\* creates the engine.
MainWait ==
    /\ pc = "wait"
    /\ cycles < MaxCycles
    /\ cycles' = cycles + 1
    /\ LET native == DispatchTarget(IS_TERMUX, porcupine_mod) = "create"
           created == _create_porcupine(PICOVOICE_ACCESS_KEY, WAKE_WORD_MODEL_PATH, ppn_at_cwd)
       IN  /\ engine' = IF native THEN created ELSE engine
           /\ \E got \in {"True", "raised"} :
                LET out == IF native /\ created = "ValueError" THEN "ValueError" ELSE got
                IN  /\ events' = <<Event("wait", "", out)>>
                    /\ pc' = IF out = "True" THEN "yes" ELSE "handler"
    /\ UNCHANGED <<mainConfig, phrase, ended>>
    /\ UNCHANGED <<recVars, readVars, segVars, waitVars, matchVars, probeVars, listenVars>>

SpeakPositions == {"yes", "try_again", "sorry", "stopped", "goodbye", "playing", "not_found"}

\* Where the loop body goes after a feedback call that returned.
AfterSpeak(phrase_key) ==
    CASE phrase_key = "yes" -> "listen1"
      [] phrase_key = "try_again" -> "listen2"
      [] phrase_key = "goodbye" -> "exited"
      [] OTHER -> "wait"

\* The feedback.speak_phrase calls of lines 65, 70, 73, 78, 82, 87, 89; after
\* "goodbye" comes sys.exit(0).
MainSpeak ==
    /\ pc \in SpeakPositions
    /\ \E asset \in BOOLEAN, tts \in {"ok", "gTTSError"} :
         LET out == speak_phrase(pc, asset, tts, mpv)
         IN  /\ events' = Append(events, Event("say", pc, out))
             /\ pc' = IF out = "ok" THEN AfterSpeak(pc) ELSE "handler"
             /\ ended' = IF out = "ok" /\ pc = "goodbye" THEN "exit 0" ELSE ended
    /\ UNCHANGED <<mainConfig, cycles, phrase, engine>>
    /\ UNCHANGED <<recVars, readVars, segVars, waitVars, matchVars, probeVars, listenVars>>

\* Lines 75-85: where a phrase is dispatched.
DispatchPhrase(p) ==
    IF p.chars \in StopPhrases THEN "stop_playback"
    ELSE IF p.chars \in SLEEP_PHRASES THEN "sleep_stop_playback"
    ELSE "play_song"

\* Lines 68-69 and 71-72: listener.listen_for_song_name() and "if not phrase".
MainListen ==
    /\ pc \in {"listen1", "listen2"}
    /\ \E got \in ListenResults :
         /\ events' = Append(events, Event("listen", "", IF got.kind = "str" THEN "phrase" ELSE got.kind))
         /\ IF got = PyRaised
            THEN pc' = "handler" /\ UNCHANGED phrase
            ELSE /\ phrase' = got
                 /\ pc' = IF Or(got, PyNone) = PyNone
                          THEN (IF pc = "listen1" THEN "try_again" ELSE "sorry")
                          ELSE DispatchPhrase(got)
    /\ UNCHANGED <<mainConfig, cycles, engine, ended>>
    /\ UNCHANGED <<recVars, readVars, segVars, waitVars, matchVars, probeVars, listenVars>>

\* Lines 77 and 81: player.stop_playback()
MainStopPlayback ==
    /\ pc \in {"stop_playback", "sleep_stop_playback"}
    /\ events' = Append(events, Event("stop", "", "ok"))
    /\ pc' = IF pc = "stop_playback" THEN "stopped" ELSE "goodbye"
    /\ UNCHANGED <<mainConfig, cycles, phrase, engine, ended>>
    /\ UNCHANGED <<recVars, readVars, segVars, waitVars, matchVars, probeVars, listenVars>>

\* Lines 85-89: player.play_song(phrase) and the choice of the feedback.
MainPlaySong ==
    /\ pc = "play_song"
    /\ \E found \in BOOLEAN, popen_ok \in BOOLEAN :
         LET out == play_song(found, popen_ok, mpv)
         IN  /\ events' = Append(events, Event("play", "", out))
             /\ pc' = IF out \in {"playing", "not_found"} THEN out ELSE "handler"
    /\ UNCHANGED <<mainConfig, cycles, phrase, engine, ended>>
    /\ UNCHANGED <<recVars, readVars, segVars, waitVars, matchVars, probeVars, listenVars>>

\* Lines 94-96: "except Exception": the error is printed and
\* feedback.speak_phrase("error") is called, with nothing around it.
MainHandler ==
    /\ pc = "handler"
    /\ \E tts \in {"ok", "gTTSError"} :
         LET out == speak_phrase("error", FALSE, tts, mpv)
         IN  /\ events' = Append(events, Event("say", "error", out))
             /\ pc' = IF out = "ok" THEN "wait" ELSE "exited"
             /\ ended' = IF out = "ok" THEN ended ELSE "exception"
    /\ UNCHANGED <<mainConfig, cycles, phrase, engine>>
    /\ UNCHANGED <<recVars, readVars, segVars, waitVars, matchVars, probeVars, listenVars>>

\* Lines 90-93: Ctrl-C anywhere in the loop: stop_playback, then break.
MainInterrupt ==
    /\ pc \notin {"idle", "start", "exited"}
    /\ events' = Append(events, Event("interrupt", "", ""))
    /\ pc' = "exited"
    /\ ended' = "KeyboardInterrupt"
    /\ UNCHANGED <<mainConfig, cycles, phrase, engine>>
    /\ UNCHANGED <<recVars, readVars, segVars, waitVars, matchVars, probeVars, listenVars>>

MainNext ==
    \/ MainStartup
    \/ MainWait
    \/ MainSpeak
    \/ MainListen
    \/ MainStopPlayback
    \/ MainPlaySong
    \/ MainHandler
    \/ MainInterrupt

(***************************************************************************)
(* Specifications.                                                         *)
(***************************************************************************)
RecorderInit ==
    RecInit /\ ReadIdle /\ SegIdle /\ WaitIdle /\ MatchIdle /\ ProbeIdle /\ ListenIdle /\ MainIdle

RecorderSpec == RecorderInit /\ [][RecNext]_vars

ReadSpecInit ==
    RecIdle /\ ReadInit /\ SegIdle /\ WaitIdle /\ MatchIdle /\ ProbeIdle /\ ListenIdle /\ MainIdle

ReadSpec == ReadSpecInit /\ [][ReadNext]_vars

SegSpecInit ==
    RecIdle /\ ReadIdle /\ SegInit /\ WaitIdle /\ MatchIdle /\ ProbeIdle /\ ListenIdle /\ MainIdle

SegSpec == SegSpecInit /\ [][SegNext]_vars

WaitSpecInit ==
    RecIdle /\ ReadIdle /\ SegInit /\ WaitInit /\ MatchIdle /\ ProbeIdle /\ ListenIdle /\ MainIdle

WaitSpec == WaitSpecInit /\ [][WaitNext]_vars

MatchSpecInit ==
    RecIdle /\ ReadIdle /\ SegIdle /\ WaitIdle /\ MatchInit /\ ProbeIdle /\ ListenIdle /\ MainIdle

MatchSpec == MatchSpecInit /\ [][MatchNext]_vars

ProbeSpecInit ==
    RecIdle /\ ReadIdle /\ SegIdle /\ MatchIdle /\ ProbeInit /\ ListenIdle /\ MainIdle

ProbeSpec == ProbeSpecInit /\ [][ProbeNext]_vars

ListenSpecInit ==
    RecIdle /\ ReadIdle /\ SegInit /\ MatchIdle /\ ProbeIdle /\ ListenInit /\ MainIdle

ListenSpec == ListenSpecInit /\ [][ListenNext]_vars

MainSpecInit ==
    RecIdle /\ ReadIdle /\ SegIdle /\ MatchIdle /\ ProbeIdle /\ ListenIdle /\ MainInit

MainSpec == MainSpecInit /\ [][MainNext]_vars

\* The calling thread keeps running: whenever one of its steps stays
\* possible, it is eventually taken.  Nothing is assumed of the other thread
\* or of the capture process.
LiveSegSpec == SegSpecInit /\ [][SegNext]_vars /\ WF_vars(SegProgress)

LiveWaitSpec == WaitSpecInit /\ [][WaitNext]_vars /\ WF_vars(WaitStep)

(***************************************************************************)
(* Claims about AudioRecorder._read_sox (ReadSpec).                        *)
(***************************************************************************)
\* The n-th frame of the stream, decoded straight from the stream.
FrameOfStream(n) ==
    LET base == 2 * frame_length * (n - 1)
    IN  [i \in 1..frame_length |->
            LET lo == stream[base + 2 * i - 1]
                hi == stream[base + 2 * i]
            IN  IF hi >= 128 THEN lo + 256 * hi - 65536 ELSE lo + 256 * hi]

\* C7: every read() of the external-pipe Frame Source that returns, returns
\* exactly frame_length samples made of exactly the next 2*frame_length bytes
\* of the stream, in order, whatever the sizes of the chunks the pipe
\* delivered: the n-th returned frame is the n-th block of the stream and
\* exactly n blocks have been taken from the pipe.
C7_ExactFrames ==
    rpc = "returned" =>
        /\ Len(frame) = frame_length
        /\ rpos = 2 * frame_length * nframes
        /\ frame = FrameOfStream(nframes)

\* A second frame was returned, assembled from more than one pipe read, with
\* bytes that differ inside the frame.
C7_Witness ==
    /\ rpc = "returned"
    /\ nframes = 2
    /\ nchunks >= 2
    /\ stream[rpos - 1] # stream[rpos]

\* C8: read() fails exactly when a pipe read returned zero bytes before
\* 2*frame_length bytes were accumulated; a non-empty read never fails it,
\* and a failed read returns no frame (the frame count and the last frame
\* are those of the reads that completed).
C8_FailsExactlyOnEmptyRead ==
    /\ (rpc = "failed") <=> (lastChunk = 0)
    /\ rpc = "failed" => Len(data) < 2 * frame_length
    /\ rpc # "struct.error"
    /\ frame = IF nframes = 0 THEN <<>> ELSE FrameOfStream(nframes)

\* The stream ended in the middle of a frame, after a non-empty short read.
C8_Witness ==
    /\ rpc = "failed"
    /\ Len(data) > 0
    /\ nchunks >= 2

(***************************************************************************)
(* Claims about AudioRecorder.start / stop / delete (RecorderSpec).        *)
(***************************************************************************)
\* C9: start() on a started instance acquires nothing and changes nothing;
\* a start() that raised leaves the instance not started; and a start() on
\* an instance that is not started (also after a failed start) that does
\* not raise has made exactly one acquisition and set it started.
C9_StartIdempotent ==
    hlast.op = "start" =>
        /\ hlast.pre.started => (rec = hlast.pre /\ ~hlast.raised)
        /\ hlast.raised => ~rec.started
        /\ (~hlast.pre.started /\ ~hlast.raised) =>
               (rec.started /\ rec.opened = hlast.pre.opened + 1)

\* start() was called on an instance that an earlier start() had started.
C9_Witness ==
    /\ hlast.op = "start"
    /\ hlast.pre.started
    /\ rec.started
    /\ rec.opened = 1

\* C10: stop() and delete() never raise, whatever the underlying release
\* operations do, and after stop() returns the instance is not started.
C10_TeardownNeverRaises ==
    /\ hlast.op \in {"stop", "delete"} => ~hlast.raised
    /\ (hlast.op = "stop" /\ ~hlast.raised) => ~rec.started

(***************************************************************************)
(* Claims about the segment recorders (SegSpec).                           *)
(***************************************************************************)
\* C6: in both segment recorders, whenever the primary strategy was
\* attempted and missed in a call that returned, the pipe-capture utility
\* was the last command that call launched (when it is installed), and the
\* call returned a segment exactly when that utility produced one.
C6_SecondaryAfterPrimaryMiss ==
    (spc = "done" /\ sprimary = "failed" /\ sout.kind # "raised" /\ tools.sox) =>
        /\ Len(slaunched) > 0
        /\ slaunched[Len(slaunched)] = "sox"

\* The same statement for the phrase listener's recorder alone.
C6_PhraseRecorderFallsThrough ==
    swho = "phrase" => C6_SecondaryAfterPrimaryMiss

\* The phrase recorder's primary strategy missed and sox delivered the segment.
C6_PhraseWitness ==
    /\ swho = "phrase"
    /\ spc = "done"
    /\ sprimary = "failed"
    /\ sout.kind = "segment"

Decoders == {"opusdec", "ffmpeg"}

\* C19: in both segment recorders a decoder is launched only on a recorded
\* payload of at least 100 bytes, and a payload that is missing, empty or
\* shorter than that when the polling ends makes the primary strategy fail.
C19_NoDecoderOnShortPayload ==
    /\ (\E i \in 1..Len(slaunched) : slaunched[i] \in Decoders) => sdata >= MinBytes
    /\ (spc \in {"opusdec", "ffmpeg", "sox_which", "sox_run", "done"}
            /\ spolls > 0 /\ sdata < MinBytes)
           => (spolls = Polls /\ sprimary = "failed")

\* The phrase recorder polled five times, read 99 bytes and launched no decoder.
C19_Witness ==
    /\ swho = "phrase"
    /\ spc = "done"
    /\ spolls = PollsPhrase
    /\ sdata = MinBytes - 1
    /\ sprimary = "failed"
    /\ \A i \in 1..Len(slaunched) : slaunched[i] \notin Decoders

\* C20: every segment a segment recorder returns as a success, from a
\* decoder or from sox, holds at least 100 bytes.
C20_SegmentsAtLeastMinBytes ==
    (spc = "done" /\ sout.kind = "segment") => sout.size >= MinBytes

\* What does hold of a returned segment: it is not empty.
C20_SegmentsNonEmpty ==
    (spc = "done" /\ sout.kind = "segment") => sout.size > 0

\* C21: when a segment recorder call returns, on every path, neither the
\* recorder's output file nor the decoder's temporary input file remains.
C21_NoTransientFilesLeft ==
    spc = "done" => sfiles = {}

\* What does hold: the decoder's temporary input file never outlives the call.
C21_NoTemporaryDecoderInputLeft ==
    spc = "done" => "tmp" \notin sfiles

\* C22: every external-process invocation of a segment recorder carries an
\* explicit timeout equal to the requested duration plus a fixed margin, and
\* the polling of the output file is bounded to a fixed number of attempts.
C22_TimeoutIsDurationPlusMargin ==
    /\ \A i \in 1..Len(stimeouts) :
         /\ stimeouts[i].given
         /\ \A d \in Durations :
              Timeout(swho, slaunched[i], d).sec - d = stimeouts[i].sec - sduration
    /\ spolls <= Polls

\* The timeouts as they are: duration plus a margin for sox and for the phrase
\* recorder's recorder utility, a fixed number of seconds elsewhere.
C22_TimeoutsAsGiven ==
    \A i \in 1..Len(stimeouts) :
        /\ stimeouts[i].given
        /\ stimeouts[i].sec =
             CASE slaunched[i] = "sox" -> sduration + 5
               [] slaunched[i] = "termux-microphone-record" /\ swho = "phrase" -> sduration + 12
               [] slaunched[i] # "sox" /\ swho = "wake" -> 10
               [] OTHER -> 15

\* C22 (amended): every invocation carries an explicit finite timeout, the
\* polling is bounded by 3 (wake) or 5 (phrase) attempts, and every call,
\* whatever its duration, returns or raises.
C22_TimeoutsBoundTheCall ==
    /\ [](C22_TimeoutsAsGiven /\ Len(stimeouts) = Len(slaunched) /\ spolls <= Polls)
    /\ (spc = "which" ~> spc = "done")

\* A phrase-recorder call that polled its file, ran both decoders and sox,
\* with a duration for which 15 seconds is not "duration plus 12", is over.
C22_Witness ==
    /\ spc = "done"
    /\ swho = "phrase"
    /\ sduration = 2
    /\ spolls > 1
    /\ slaunched = <<"termux-microphone-record", "opusdec", "ffmpeg", "sox">>

\* C23: a segment recorder call never raises to its caller: it returns a
\* segment or (None, None), whatever fails in whichever strategy.
C23_NeverRaises ==
    spc = "done" => sout.kind \in {"segment", "None"}

\* What does hold: the phrase recorder never raises.
C23_PhraseRecorderNeverRaises ==
    (spc = "done" /\ swho = "phrase") => sout.kind \in {"segment", "None"}

\* C24: in the primary strategy, when the primary decoder fails in any way
\* (non-zero exit, empty output, timeout, not installed), the secondary
\* decoder is run on the same recording before the strategy is given up.
C24_SecondaryDecoderTried ==
    (swho = "phrase" /\ sprimary = "failed" /\ sdata >= MinBytes)
        => \E i \in 1..Len(slaunched) : slaunched[i] = "ffmpeg"

(***************************************************************************)
(* Claims about listen_for_song_name (ListenSpec).                         *)
(***************************************************************************)
AllWhitespace(chars) == \A i \in 1..Len(chars) : chars[i] \in Whitespace

\* r is t without its leading and trailing whitespace.
IsStripped(r, t) ==
    /\ r # <<>> => (r[1] \notin Whitespace /\ r[Len(r)] \notin Whitespace)
    /\ \E i \in 0..Len(t), j \in 0..Len(t) :
         /\ i + Len(r) + j = Len(t)
         /\ AllWhitespace(SubSeq(t, 1, i))
         /\ SubSeq(t, i + 1, i + Len(r)) = r
         /\ AllWhitespace(SubSeq(t, i + Len(r) + 1, Len(t)))

RecoverableFailures ==
    {"capture failure", "WaitTimeoutError", "UnknownValueError", "RequestError"}

\* C25: listen_for_song_name returns None or a non-empty string that is the
\* transcript without its leading and trailing whitespace; a capture failure,
\* a wait timeout, unintelligible speech, a service error and an empty or
\* whitespace-only transcript all give None; "" and whitespace-only strings
\* are never returned.
C25_NoneOrStrippedTranscript ==
    (lpc = "done" /\ lret.kind # "raised") =>
        /\ lret.kind \in {"None", "str"}
        /\ lret.kind = "str" =>
             /\ loutcome = "text"
             /\ lheard.kind = "str"
             /\ lret.chars # <<>>
             /\ ~AllWhitespace(lret.chars)
             /\ IsStripped(lret.chars, lheard.chars)
        /\ loutcome \in RecoverableFailures => lret = PyNone
        /\ (loutcome = "text" /\ (lheard = PyNone \/ AllWhitespace(lheard.chars)))
               => lret = PyNone
        /\ (loutcome = "text" /\ lheard.kind = "str" /\ ~AllWhitespace(lheard.chars))
               => lret.kind = "str"

\* The second call got a whitespace-only transcript and returned None.
C25_Witness ==
    /\ lpc = "done"
    /\ loutcome = "text"
    /\ lheard = Str(<<" ", "\t">>)
    /\ lret = PyNone
    /\ lcalls = 2

(***************************************************************************)
(* Claims about main (MainSpec).                                           *)
(***************************************************************************)
Listens == {i \in 1..Len(events) : events[i].op = "listen"}
Said(phrase_key) ==
    \E i \in 1..Len(events) : events[i].op = "say" /\ events[i].arg = phrase_key
\* The iteration began with a detected trigger.
Detected == events # <<>> /\ events[1] = Event("wait", "", "True")
\* The iteration is over: the loop is back at its top, or the process ended.
CycleOver == pc \in {"wait", "exited"} /\ events # <<>>
Interrupted == \E i \in 1..Len(events) : events[i].op = "interrupt"
BothListensGaveNone ==
    Cardinality(Listens) = 2 /\ \A i \in Listens : events[i].out = "None"

\* The retry-once policy, which holds: at most two listens, the second only
\* after a first one that returned None and right after "try_again"; "sorry"
\* exactly when both returned None, and then nothing goes to the player.
C26_RetryOnce ==
    /\ Cardinality(Listens) <= 2
    /\ \A i \in Listens, j \in Listens :
         i < j => (events[i].out = "None" /\ events[j - 1] = Event("say", "try_again", "ok"))
    /\ Said("sorry") => BothListensGaveNone
    /\ (CycleOver /\ ~Interrupted /\ BothListensGaveNone) => Said("sorry")
    /\ Said("sorry") => \A i \in 1..Len(events) : events[i].op \notin {"play", "stop"}

\* C26: in every iteration that follows a detected trigger the phrase
\* listener is invoked at least once and at most twice, the second time only
\* if the first returned None and only after "try_again"; "sorry" is given
\* exactly when both returned None, and then nothing goes to the player.
C26_ListenOnceOrTwice ==
    /\ (CycleOver /\ Detected /\ ~Interrupted) => Cardinality(Listens) >= 1
    /\ C26_RetryOnce

\* C27: no exception other than a keyboard interrupt, raised anywhere in an
\* iteration (the feedback call of the error report included), ends the
\* process: it is reported and a new wait follows.
C27_NoExceptionEndsTheProcess ==
    ended # "exception"

\* NativeSpotter is the mode wait_for_wake_word dispatches to.
NativeSpotterSelected == DispatchTarget(IS_TERMUX, porcupine_mod) = "create"
CredentialOrModelMissing ==
    PICOVOICE_ACCESS_KEY = "" \/ WAKE_WORD_MODEL_PATH = "" \/ ~ppn_at_root

C32_AcceptedModelIsLoaded ==
    engine # "none" => engine = "keyword_paths"

\* What does hold: an accepted absolute path is always the one loaded.
C32_AcceptedAbsoluteModelIsLoaded ==
    (engine # "none" /\ is_absolute(WAKE_WORD_MODEL_PATH)) => engine = "keyword_paths"

(***************************************************************************)
(* Claims about the wake-phrase match (MatchSpec, WaitSpec).               *)
(***************************************************************************)
\* The normal form as the claims word it: the characters that are not
\* whitespace, a hyphen, an apostrophe, a quote or one of . , ! ? are kept,
\* in order, each in lower case.
Removed == {" ", "\t", "\n", "-", "'", "\"", ".", ",", "!", "?"}

LowerCaseOf == [c \in {"A", "B", "D", "E", "M", "P"} |->
                   CASE c = "A" -> "a" [] c = "B" -> "b" [] c = "D" -> "d"
                     [] c = "E" -> "e" [] c = "M" -> "m" [] OTHER -> "p"]

NormalForm(t) ==
    LET keep == {i \in 1..Len(t) : t[i] \notin Removed}
        nth(k) == CHOOSE i \in keep : Cardinality({j \in keep : j <= i}) = k
    IN  [k \in 1..Cardinality(keep) |->
            IF t[nth(k)] \in DOMAIN LowerCaseOf THEN LowerCaseOf[t[nth(k)]]
            ELSE t[nth(k)]]

IsContiguousPart(w, t) == \E pre, post \in 0..Len(t) :
    /\ pre + Len(w) + post = Len(t)
    /\ \A i \in 1..Len(w) : t[pre + i] = w[i]

DoraEMon == <<"d", "o", "r", "a", " ", "e", " ", "m", "o", "n">>

\* C11: whenever the normal form of the wake phrase is a contiguous part of
\* the normal form of the transcript, _matches_wake_word returns True; the
\* transcript "dora e mon" matches the wake phrase "doraemon".
C11_SubstringMatches ==
    mpc = "done" =>
        /\ IsContiguousPart(NormalForm(mword), NormalForm(mtext)) => mresult
        /\ (mtext = DoraEMon /\ mword = WAKE_WORD) => mresult

\* "dora e mon" was matched against "doraemon".
C11_Witness ==
    /\ mpc = "done"
    /\ mtext = DoraEMon
    /\ mword = WAKE_WORD
    /\ mresult


\* The core syllables of the wake word "doraemon", "dor" and "mon", occur in
\* the normal form of t in that order with at most three characters between.
CoreSyllablesOfDoraemonIn(t) ==
    LET n == NormalForm(t)
    IN  \E i \in 1..Len(n), gap \in 0..3 :
          /\ i + 5 + gap <= Len(n)
          /\ SubSeq(n, i, i + 2) = <<"d", "o", "r">>
          /\ SubSeq(n, i + 3 + gap, i + 5 + gap) = <<"m", "o", "n">>

\* C12: for the wake word "doraemon", _matches_wake_word also returns True
\* on a transcript that holds the first core syllable followed, after at
\* most a few characters, by the second one, as "Doremon" and "Dora Amon" do.
C12_CoreSyllablesMatch ==
    (mpc = "done" /\ mword = WAKE_WORD /\ CoreSyllablesOfDoraemonIn(mtext)) => mresult

\* The phrases the configuration names: WAKE_WORD and the extra phrases.
ConfiguredPhrases == {WAKE_WORD} \cup WAKE_PHRASES

\* C13: in the transcribe loop, a Recognized transcript that matches any
\* configured wake phrase (WAKE_WORD or an extra phrase of WAKE_PHRASES)
\* makes the wait return True.
C13_AnyConfiguredPhraseTriggers ==
    (heard.kind = "Recognized" /\ \E ph \in ConfiguredPhrases :
         IsContiguousPart(NormalForm(ph), NormalForm(heard.text)))
        => (wpc = "done" /\ wret = "True")

\* The part of C13 about WAKE_WORD alone.
C13_WakeWordTriggers ==
    (heard.kind = "Recognized"
         /\ IsContiguousPart(NormalForm(WAKE_WORD), NormalForm(heard.text)))
        => (wpc = "done" /\ wret = "True")

\* C30: _matches_wake_word returns True only if the normal form of the wake
\* phrase is non-empty and is a contiguous part of the normal form of the
\* transcript; "play avenged sevenfold" does not match "doraemon"; a wake
\* word whose normal form is empty does not match every transcript.
C30_MatchOnlyNonEmptyContained ==
    mpc = "done" =>
        /\ mresult => /\ NormalForm(mword) # <<>>
                      /\ IsContiguousPart(NormalForm(mword), NormalForm(mtext))
        /\ (mtext = PlayAvengedSevenfold /\ mword = WAKE_WORD) => ~mresult

\* What does hold: a match implies containment, and a wake phrase with a
\* non-empty normal form does not match "play avenged sevenfold" by accident.
C30_MatchOnlyContained ==
    mpc = "done" =>
        /\ mresult => IsContiguousPart(NormalForm(mword), NormalForm(mtext))
        /\ (mtext = PlayAvengedSevenfold /\ mword = WAKE_WORD) => ~mresult

\* C14: normalising a normalised string changes nothing:
\* normalise(normalise(T)) = normalise(T).
C14_NormaliseIdempotent ==
    mpc = "done" => mnorm2 = mnorm

\* "-B " was normalised: two runs of removed characters and an upper-case
\* letter.
C14_Witness ==
    /\ mpc = "done"
    /\ mtext = <<"-", "B", " ">>
    /\ mnorm = <<"b">>
    /\ mnorm2 = <<"b">>

(***************************************************************************)
(* Claims about the backend resolution (ProbeSpec).                        *)
(***************************************************************************)
\* C15 as stated: on every platform branch, desktop included, a call of
\* wait_for_wake_word dispatches to the native spotter only if the load
\* check of the native library was run and passed beforehand.
C15_LoadCheckBeforeNative ==
    \A i \in 1..Len(pmodes) : pmodes[i] = "create" => loadcheck = "passed"

\* C15 as amended: on Termux, after the plain import as well as after the
\* identifier substitution, the module is bound and the native spotter is
\* dispatched to only if the load check was run and passed; on desktop the
\* successful import alone selects the native spotter and no load check runs.
C15_LoadCheckBeforeNativeOnTermux ==
    /\ IS_TERMUX =>
           /\ selected = "module" => loadcheck = "passed"
           /\ \A i \in 1..Len(pmodes) : pmodes[i] = "create" => loadcheck = "passed"
    /\ ~IS_TERMUX =>
           /\ loadcheck = "not run"
           /\ \A i \in 1..Len(pmodes) : pmodes[i] = "create"

\* On Termux the native spotter was dispatched to after the substitution.
C15_Witness ==
    /\ IS_TERMUX
    /\ nprobes.patches = 1
    /\ Len(pmodes) >= 1
    /\ pmodes[1] = "create"
    /\ loadcheck = "passed"

\* C16: on Termux the probe always ends with a selected mode: no exception
\* leaves it, and whenever the load check did not pass the mode selected is
\* TranscribeAndMatch.
C16_ProbeAlwaysSelects ==
    IS_TERMUX =>
        /\ ppc # "raised"
        /\ (ppc = "resolved" /\ loadcheck # "passed") => selected = "None"

\* C17: subprocess.check_output is rebound only while the retried import
\* runs, so on every exit of the probe it is the original function again;
\* and a call made while it is rebound returns the command's own output
\* unless the command is the list ["cat", "/proc/cpuinfo"].
C17_PatchOnlyDuringRetry ==
    /\ check_output = "patched" => ppc = "patched_import"
    /\ ppc \in {"resolved", "raised"} => check_output = "real"
    /\ (lastcall.patched /\ lastcall.cmd # CpuInfoCmd) => lastcall.seen = lastcall.raw
    /\ ~lastcall.patched => lastcall.seen = lastcall.raw

\* The engine read a substituted CPU part during the retried import, the
\* retried import failed, and check_output is the original function again.
C17_Witness ==
    /\ ppc = "resolved"
    /\ selected = "None"
    /\ nprobes.patches = 1
    /\ loadcheck = "not run"
    /\ lastcall.patched
    /\ lastcall.cmd = CpuInfoCmd
    /\ lastcall.seen # lastcall.raw
    /\ check_output = "real"

\* C18: whatever the number of wait_for_wake_word calls, the module-level
\* probe has run once (at most two imports, one read of the CPU information,
\* one substitution, one library load), every call dispatched to the mode
\* the probe selected, and _porcupine_mod is still what the probe bound.
C18_DecidedOnce ==
    /\ nprobes.runs <= 1
    /\ nprobes.imports <= 2
    /\ nprobes.cpuinfo <= 1
    /\ nprobes.patches <= 1
    /\ nprobes.loads <= 1
    /\ pcalls > 0 => (ppc = "resolved" /\ nprobes.runs = 1)
    /\ ppc = "resolved" => porcupine_mod = (selected = "module")
    /\ Len(pmodes) = pcalls
    /\ \A i \in 1..Len(pmodes) :
           pmodes[i] = IF IS_TERMUX /\ selected = "None" THEN "sr_top" ELSE "create"

\* Two calls on Termux both entered the transcribe loop the probe selected.
C18_Witness ==
    /\ IS_TERMUX
    /\ selected = "None"
    /\ pcalls >= 2
    /\ pmodes[1] = "sr_top"
    /\ pmodes[2] = "sr_top"

(***************************************************************************)
(* Claims about wait_for_wake_word (WaitSpec, LiveWaitSpec).               *)
(***************************************************************************)
NativeSpotter == ~IS_TERMUX \/ porcupine_mod

\* Nothing the AudioRecorder acquired is still held.
Released(r) == r.recorder = "None" /\ r.process = "None" /\ r.opened = r.closed

\* C29: at most one capture backend is held at any point of the outer loop:
\* whenever wait_for_wake_word is over, by a return or by an exception, the
\* Frame Source it acquired has been released, so none is held while the
\* phrase listener runs or when the next wait begins.
C29_NoFrameSourceHeldAfterWait ==
    wpc = "done" => Released(rec)

\* What does hold: a call that returns, True or False, has released it.
C29_ReleasedWhenWaitReturns ==
    (wpc = "done" /\ wret \in {"True", "False"}) => Released(rec)

\* C31: over any sequence of start(), stop(), read() and delete() calls the
\* instance never holds more than one native recorder handle or capture
\* process at a time, and once delete() has returned everything it acquired
\* has been released exactly once; start(), stop(), start() on the native
\* backend does not put a new handle in the place of a live one.
C31_ReleasedExactlyOnce ==
    /\ rec.closed <= rec.opened
    /\ rec.opened - rec.closed <= 1
    /\ (hlast.op = "delete" /\ ~hlast.raised) => Released(rec)

\* What does hold: on the sox backend, where stop() reaps the process.
C31_SoxReleasedExactlyOnce ==
    rec.backend = "sox" =>
        /\ rec.closed <= rec.opened
        /\ rec.opened - rec.closed <= 1
        /\ (hlast.op = "delete" /\ ~hlast.raised) => Released(rec)

\* C33: in the transcribe loop every retry is paced by a capture attempt:
\* when the loop comes back to its cancellation check, the iteration just
\* made has launched at least one external recording command, also when
\* every capture utility is absent.
C33_RetryPacedByCapture ==
    (wpc = "sr_top" /\ lastOutcome # "none") => Len(slaunched) > 0

\* What does hold: the retry is paced whenever some capture utility is there.
C33_RetryPacedWhenAUtilityIsInstalled ==
    (wpc = "sr_top" /\ lastOutcome # "none"
        /\ (tools.sox \/ (tools.termux_rec /\ tools.ffmpeg)))
        => Len(slaunched) > 0

\* C1: wait_for_wake_word returns True only when the last thing it observed
\* was a detection (native mode: keyword index >= 0 for the frame just read;
\* transcribe mode: a Recognized transcript that contains the wake word after
\* normalisation), and returns False only with the cancellation signal set,
\* so never when no signal was supplied or it was never set.
C1_ReturnValues ==
    wpc = "done" =>
        /\ wret = "True" =>
               IF NativeSpotter THEN keyword_index >= 0
               ELSE /\ heard.kind = "Recognized"
                    /\ Contains(normalise(WAKE_WORD), normalise(heard.text))
        /\ wret = "False" => stop_event = "set"

\* The transcribe loop returned True on the transcript "dora e mon".
C1_Witness ==
    /\ wpc = "done"
    /\ wret = "True"
    /\ ~NativeSpotter
    /\ Len(heard.text) = 10

\* C2: on every exit of _wait_porcupine after the engine handle was
\* created, both the Frame Source and the engine handle have been released.
C2_PairedRelease ==
    (wpc = "done" /\ porcupine # "none") =>
        (porcupine = "deleted" /\ Released(rec))

\* C3: in native mode no read() begins while the cancellation signal is
\* set, at most one frame is classified after it was set, and a call whose
\* signal became set during a read() exits with the Frame Source and the
\* engine handle released.
C3_CancelDuringRead ==
    /\ readsAfterSet = 0
    /\ classifiedAfterSet <= 1
    /\ (wpc = "done" /\ setDuringRead /\ porcupine # "none") =>
           (porcupine = "deleted" /\ Released(rec))

\* The part of C3 about reading and classifying, which holds on its own.
C3_NoReadAfterCancel ==
    /\ readsAfterSet = 0
    /\ classifiedAfterSet <= 1

\* The signal was set during a read, that frame was classified, and the
\* call returned False.
C3_NoReadWitness ==
    /\ wpc = "done"
    /\ setDuringRead
    /\ classifiedAfterSet = 1
    /\ wret = "False"

\* C4: once the cancellation signal is set, wait_for_wake_word eventually
\* returns (or raises), in both modes.
C4_CancelLeadsToReturn == (stop_event = "set") ~> (wpc = "done")

\* The same for the transcribe loop and for the native device, where every
\* blocking step completes: only the read of the sox pipe can block for ever.
C4_ExceptPipeRead ==
    (stop_event = "set" /\ ~(IS_TERMUX /\ porcupine_mod)) ~> (wpc = "done")

FailureOutcomes ==
    {"capture failure", "NoSpeechDetected", "ServiceError", "empty transcript", "no match"}

\* C5: in the transcribe loop, a capture failure, NoSpeechDetected,
\* ServiceError, an empty transcript or a transcript that does not match
\* takes the call back to the top of the loop without ending it, and from
\* the top of the loop the call either observes the signal set and returns
\* False or enters a new segment recording.
C5_FailuresContinue ==
    [][ /\ (lastOutcome' \in FailureOutcomes /\ lastOutcome \notin FailureOutcomes) =>
              (wpc' = "sr_top" /\ wret' = "none")
        /\ (wpc = "sr_top" /\ wpc' # "sr_top") =>
              \/ (wpc' = "done" /\ wret' = "False" /\ stop_event = "set")
              \/ (wpc' = "sr_recording" /\ spc' = "which" /\ wret' = "none") ]_vars

\* A new segment recording began in the iteration after a service error.
C5_Witness ==
    /\ wpc = "sr_recording"
    /\ prevOutcome = "ServiceError"
    /\ spc = "which"

====
